---- MODULE Spec2Model ----
(***************************************************************************)
(* Model of docs/javascripts/copy-page-fix.js, the "copy page as markdown" *)
(* script of the PyEzTrace documentation site.                             *)
(*                                                                         *)
(* Strings are sequences of atoms.  An atom is a TLA+ string standing for  *)
(* a fixed, non-empty run of characters; every character the script        *)
(* inspects ("-", "/", "?", "#", blank, line feed) is an atom of its own,  *)
(* and the suffixes and hosts it compares against (".md", ".html",         *)
(* "github.com", ...) are single atoms, so that startsWith, endsWith,      *)
(* split, trim and the regular expressions of the script are decided on    *)
(* atoms exactly as they are on characters.                                *)
(***************************************************************************)
EXTENDS Naturals, Sequences, FiniteSets, TLC

VARIABLES
    call,           \* a call of one of the script's pure functions: [fn, arg, mid, ret]
    page,           \* window.location and the document of the page shown
    markdownCache,  \* the Map of line 8: URL -> markdown document
    cachedBy,       \* per cached URL, who stored its document: "prefetch", "caller" or "sync"
    fetches,        \* the fetchMarkdown calls suspended at an await
    writes,         \* the navigator.clipboard.writeText promises not yet settled
    toasts,         \* the .copy-to-llm-toast elements of document.body, in document order
    timers,         \* the setTimeout callbacks not yet run
    textareas,      \* the number of temporary <textarea> elements in document.body
    last            \* the handler or callback that ran last, and what it did

vars == <<call, page, markdownCache, cachedBy, fetches, writes, toasts, timers, textareas, last>>

sysvars == <<page, markdownCache, cachedBy, fetches, writes, toasts, timers, textareas, last>>

---------------------------------------------------------------------------
(* String primitives of the JavaScript runtime                             *)

NL == "\n"
SP == " "
DASH == "-"

\* The white space String.prototype.trim removes.
IsWhiteSpace(c) == c \in {SP, NL, "\t", "\r"}

StartsWith(s, p) == Len(s) >= Len(p) /\ SubSeq(s, 1, Len(p)) = p

EndsWith(s, p) == Len(s) >= Len(p) /\ SubSeq(s, Len(s) - Len(p) + 1, Len(s)) = p

RECURSIVE TrimStart(_)
TrimStart(s) ==
    IF s # <<>> /\ IsWhiteSpace(Head(s)) THEN TrimStart(Tail(s)) ELSE s

RECURSIVE TrimEnd(_)
TrimEnd(s) ==
    IF s # <<>> /\ IsWhiteSpace(s[Len(s)])
        THEN TrimEnd(SubSeq(s, 1, Len(s) - 1))
        ELSE s

Trim(s) == TrimEnd(TrimStart(s))

\* s.split(sep) for a one-atom separator: "" splits into one empty piece.
RECURSIVE SplitFrom(_, _, _)
SplitFrom(s, sep, cur) ==
    IF s = <<>> THEN <<cur>>
    ELSE IF Head(s) = sep THEN <<cur>> \o SplitFrom(Tail(s), sep, <<>>)
    ELSE SplitFrom(Tail(s), sep, Append(cur, Head(s)))

Split(s, sep) == SplitFrom(s, sep, <<>>)

\* pieces.join(sep)
RECURSIVE Join(_, _)
Join(pieces, sep) ==
    IF pieces = <<>> THEN <<>>
    ELSE IF Len(pieces) = 1 THEN pieces[1]
    ELSE pieces[1] \o <<sep>> \o Join(Tail(pieces), sep)

\* array.slice(from) with a 0-based index, on a 1-based sequence.
SliceFrom(a, from) == SubSeq(a, from + 1, Len(a))

---------------------------------------------------------------------------
(* removeFrontMatter, lines 10-26                                          *)

Delimiter == <<DASH, DASH, DASH>>

\* The loop of lines 15-21, from 0-based index i: the result is end + 1, the
\* 0-based index of the first line after the closing delimiter, or 0 when the
\* loop leaves end at -1.
RECURSIVE FrontMatterEnd(_, _)
FrontMatterEnd(lines, i) ==
    IF i >= Len(lines) THEN 0
    ELSE IF Trim(lines[i + 1]) = Delimiter THEN i + 1
    ELSE FrontMatterEnd(lines, i + 1)

\* A slip in line 25: the slice keeps the closing delimiter line.
removeFrontMatterKeepsDelimiter(markdown) ==
    IF ~StartsWith(markdown, Delimiter) THEN Trim(markdown)
    ELSE LET lines == Split(markdown, NL)
             next == FrontMatterEnd(lines, 1)
         IN  IF next = 0 THEN Trim(markdown)
             ELSE Trim(Join(SliceFrom(lines, next - 1), NL))

removeFrontMatter(markdown) ==
    IF ~StartsWith(markdown, Delimiter) THEN Trim(markdown)
    ELSE LET lines == Split(markdown, NL)
             next == FrontMatterEnd(lines, 1)
         IN  IF next = 0 THEN Trim(markdown)
             ELSE Trim(Join(SliceFrom(lines, next), NL))

---------------------------------------------------------------------------
(* The page's configuration and the location functions, lines 28-87        *)

SLASH == "/"

\* s.replace(/\/+$/, "")
RECURSIVE StripTrailingSlashes(_)
StripTrailingSlashes(s) ==
    IF s # <<>> /\ s[Len(s)] = SLASH
        THEN StripTrailingSlashes(SubSeq(s, 1, Len(s) - 1))
        ELSE s

\* s.replace(/^\/+/, "")
RECURSIVE StripLeadingSlashes(_)
StripLeadingSlashes(s) ==
    IF s # <<>> /\ Head(s) = SLASH THEN StripLeadingSlashes(Tail(s)) ELSE s

\* s.split("?")[0].split("#")[0]
DropQueryAndHash(s) == Split(Split(s, "?")[1], "#")[1]

\* s.replace(/\.html$/, ".md"), for an s that ends with ".html"
HtmlToMd(s) == SubSeq(s, 1, Len(s) - 1) \o <<".md">>

\* A <meta> element looked up by name: absent, or present with its content.
NoMeta == [present |-> FALSE, content |-> <<>>]
Meta(content) == [present |-> TRUE, content |-> content]

DefaultRawRepoBaseUrl ==
    <<"https:", SLASH, SLASH, "raw.githubusercontent.com", SLASH,
      "jeffersonaaron25", SLASH, "pyeztrace", SLASH, "main">>

getRawRepoBaseUrl(metaRepo) ==
    IF metaRepo.present /\ metaRepo.content # <<>>
        THEN StripTrailingSlashes(metaRepo.content)
        ELSE DefaultRawRepoBaseUrl

\* The normalizedBase of lines 42-45.
NormalizedBase(content) ==
    StripTrailingSlashes(IF StartsWith(content, <<SLASH>>)
                             THEN content
                             ELSE <<SLASH>> \o content)

\* A slip in lines 47-49: the path that equals the prefix is not mapped to "/".
stripBasePathWithoutExactMatch(pathname, metaBasePath) ==
    IF ~metaBasePath.present \/ metaBasePath.content = <<>> THEN pathname
    ELSE LET normalizedBase == NormalizedBase(metaBasePath.content)
         IN  IF StartsWith(pathname, normalizedBase \o <<SLASH>>)
                 THEN SliceFrom(pathname, Len(normalizedBase))
             ELSE pathname

stripBasePath(pathname, metaBasePath) ==
    IF ~metaBasePath.present \/ metaBasePath.content = <<>> THEN pathname
    ELSE LET normalizedBase == NormalizedBase(metaBasePath.content)
         IN  IF pathname = normalizedBase THEN <<SLASH>>
             ELSE IF StartsWith(pathname, normalizedBase \o <<SLASH>>)
                 THEN SliceFrom(pathname, Len(normalizedBase))
             ELSE pathname

IndexMd == <<"index", ".md">>

\* window.location.origin
Origin == <<"https:", SLASH, SLASH, "jeffersonaaron25.github.io">>

\* A slip in lines 67-69: a path that ends in ".md" gets ".md" once more.
getMarkdownPathFromLocationAppendsAlways(pathname, metaBasePath) ==
    LET path == StripTrailingSlashes(StripLeadingSlashes(
                    DropQueryAndHash(stripBasePath(pathname, metaBasePath))))
    IN  IF path = <<>> THEN IndexMd
        ELSE IF EndsWith(path, <<".html">>) THEN HtmlToMd(path)
        ELSE path \o <<".md">>

getMarkdownPathFromLocation(pathname, metaBasePath) ==
    LET path == StripTrailingSlashes(StripLeadingSlashes(
                    DropQueryAndHash(stripBasePath(pathname, metaBasePath))))
    IN  IF path = <<>> THEN IndexMd
        ELSE IF EndsWith(path, <<".html">>) THEN HtmlToMd(path)
        ELSE IF EndsWith(path, <<".md">>) THEN path
        ELSE path \o <<".md">>

\* A slip in lines 76-84: the path of getMarkdownPathFromLocation is reused.
getLocalMarkdownUrlFromSourcePath(origin, pathname) ==
    origin \o <<SLASH>> \o getMarkdownPathFromLocation(pathname, NoMeta)

getLocalMarkdownUrl(origin, pathname) ==
    LET path == DropQueryAndHash(pathname)
    IN  origin \o
        (IF EndsWith(path, <<SLASH>>) THEN path \o IndexMd
         ELSE IF EndsWith(path, <<SLASH, "index", ".html">>)
             THEN SubSeq(path, 1, Len(path) - 3) \o <<SLASH>> \o IndexMd
         ELSE IF EndsWith(path, <<".html">>) THEN HtmlToMd(path)
         ELSE IF ~EndsWith(path, <<".md">>) THEN path \o <<SLASH>> \o IndexMd
         ELSE path)

---------------------------------------------------------------------------
(* normalizeGithubRawUrl, lines 89-114                                     *)

RawHostPrefix == <<"https:", SLASH, SLASH, "raw.githubusercontent.com", SLASH>>

\* What "." of the regular expression does not match.
HasLineTerminator(s) == \E i \in 1..Len(s) : s[i] \in {NL, "\r"}

\* The regular expression of line 95 on the pieces between the slashes of url:
\* ^https?: / (empty) / github.com / ([^/]+) / ([^/]+) / raw / ([^/]+) / (.+)$
GithubRawMatch(url) ==
    LET segs == Split(url, SLASH)
    IN  /\ Len(segs) >= 8
        /\ segs[1] \in { <<"https:">>, <<"http:">> }
        /\ segs[2] = <<>>
        /\ segs[3] = <<"github.com">>
        /\ segs[4] # <<>>
        /\ segs[5] # <<>>
        /\ segs[6] = <<"raw">>
        /\ segs[7] # <<>>
        /\ Join(SubSeq(segs, 8, Len(segs)), SLASH) # <<>>
        /\ ~HasLineTerminator(Join(SubSeq(segs, 8, Len(segs)), SLASH))

\* A slip in lines 102-111: the "raw" piece is carried over into the result.
normalizeGithubRawUrlKeepsRaw(url) ==
    IF url = <<>> THEN <<>>
    ELSE IF GithubRawMatch(url)
        THEN RawHostPrefix \o Join(SubSeq(Split(url, SLASH), 4, Len(Split(url, SLASH))), SLASH)
    ELSE url

normalizeGithubRawUrl(url) ==
    IF url = <<>> THEN <<>>
    ELSE IF GithubRawMatch(url)
        THEN LET segs == Split(url, SLASH)
                 owner == segs[4]
                 repo == segs[5]
                 branch == segs[7]
                 filePath == Join(SubSeq(segs, 8, Len(segs)), SLASH)
             IN  RawHostPrefix \o owner \o <<SLASH>> \o repo \o <<SLASH>>
                     \o branch \o <<SLASH>> \o filePath
    ELSE url

---------------------------------------------------------------------------
(* copyPageMarkdownFromDom, lines 116-149                                  *)
(*                                                                         *)
(* The content region is a sequence of chunks of markup: [remove, html],   *)
(* where remove marks a subtree that line 126 selects (.md-clipboard,      *)
(* .copy-to-llm, .headerlink, script, style) and html is its markup, one   *)
(* atom per tag, entity or run of text.                                    *)

Chunk(html) == [remove |-> FALSE, html |-> html]
Removed(html) == [remove |-> TRUE, html |-> html]

\* clone.innerHTML after the selected nodes are removed, lines 124-129.
RECURSIVE InnerHtmlOfClone(_)
InnerHtmlOfClone(chunks) ==
    IF chunks = <<>> THEN <<>>
    ELSE (IF Head(chunks).remove THEN <<>> ELSE Head(chunks).html)
             \o InnerHtmlOfClone(Tail(chunks))

\* The tags of the markup alphabet.
Tags ==
    { "<h1>", "</h1>", "<h2 id=\"a\">", "</h2>", "<h3>", "</h3>", "<h4>", "</h4>",
      "<pre>", "</pre>", "<code>", "</code>", "<strong>", "</strong>", "<em>", "</em>",
      "<a href=\"u\">", "</a>", "<ul>", "</ul>", "<li>", "</li>", "<p>", "</p>",
      "<br>", "<div>", "</div>" }

\* The atoms an opening pattern <name[^>]*> matches: every tag whose text
\* starts with "<name".
Opening(name) ==
    CASE name = "h1" -> { "<h1>" }
      [] name = "h2" -> { "<h2 id=\"a\">" }
      [] name = "h3" -> { "<h3>" }
      [] name = "h4" -> { "<h4>" }
      [] name = "pre" -> { "<pre>" }
      [] name = "code" -> { "<code>" }
      [] name = "strong" -> { "<strong>" }
      [] name = "em" -> { "<em>" }
      [] name = "li" -> { "<li>" }
      [] name = "p" -> { "<p>", "<pre>" }
      [] name = "br" -> { "<br>" }

\* The first index >= i of s whose atom is in set, or 0.
RECURSIVE IndexIn(_, _, _)
IndexIn(s, set, i) ==
    IF i > Len(s) THEN 0
    ELSE IF s[i] \in set THEN i
    ELSE IndexIn(s, set, i + 1)

\* s.replace(/<open>(.*?)<close>/gis, before + "$1" + after): from the left,
\* every opening atom with a closing atom after it is replaced together with
\* the nearest such closing atom.
RECURSIVE ReplacePairs(_, _, _, _, _)
ReplacePairs(s, opens, close, before, after) ==
    LET i == IndexIn(s, opens, 1)
        j == IF i = 0 THEN 0 ELSE IndexIn(s, {close}, i + 1)
    IN  IF i = 0 \/ j = 0 THEN s
        ELSE SubSeq(s, 1, i - 1) \o before \o SubSeq(s, i + 1, j - 1) \o after
                 \o ReplacePairs(SubSeq(s, j + 1, Len(s)), opens, close, before, after)

\* The first index >= i where first is immediately followed by second, or 0.
RECURSIVE IndexOfPair(_, _, _, _)
IndexOfPair(s, first, second, i) ==
    IF i + 1 > Len(s) THEN 0
    ELSE IF s[i] = first /\ s[i + 1] = second THEN i
    ELSE IndexOfPair(s, first, second, i + 1)

\* Line 135: <pre[^>]*><code[^>]*>(.*?)</code></pre> becomes a fenced block.
\* The atom of the grave accent of markdown code spans and fences.
BACKTICK == "grave"

Fence == <<BACKTICK, BACKTICK, BACKTICK>>

RECURSIVE ReplacePreCode(_)
ReplacePreCode(s) ==
    LET i == IndexOfPair(s, "<pre>", "<code>", 1)
        j == IF i = 0 THEN 0 ELSE IndexOfPair(s, "</code>", "</pre>", i + 2)
    IN  IF i = 0 \/ j = 0 THEN s
        ELSE SubSeq(s, 1, i - 1) \o Fence \o <<NL>> \o SubSeq(s, i + 2, j - 1)
                 \o <<NL>> \o Fence \o <<NL, NL>>
                 \o ReplacePreCode(SubSeq(s, j + 2, Len(s)))

\* Line 139: <a[^>]*href="([^"]*)"[^>]*>(.*?)</a> becomes [$2]($1).
RECURSIVE ReplaceAnchors(_)
ReplaceAnchors(s) ==
    LET i == IndexIn(s, { "<a href=\"u\">" }, 1)
        j == IF i = 0 THEN 0 ELSE IndexIn(s, { "</a>" }, i + 1)
    IN  IF i = 0 \/ j = 0 THEN s
        ELSE SubSeq(s, 1, i - 1) \o <<"[">> \o SubSeq(s, i + 1, j - 1)
                 \o <<"]", "(", "u", ")">>
                 \o ReplaceAnchors(SubSeq(s, j + 1, Len(s)))

\* s.replace(/<atom>/g, by) for a pattern that matches single atoms.
RECURSIVE ReplaceAtoms(_, _, _)
ReplaceAtoms(s, set, by) ==
    IF s = <<>> THEN <<>>
    ELSE (IF Head(s) \in set THEN by ELSE <<Head(s)>>) \o ReplaceAtoms(Tail(s), set, by)

\* s.replace(/\n{3,}/g, "\n\n"); run counts the line feeds seen just before s.
RECURSIVE CollapseNewlines(_, _)
CollapseNewlines(s, run) ==
    IF s = <<>> THEN <<>>
    ELSE IF Head(s) = NL
        THEN (IF run >= 2 THEN <<>> ELSE <<NL>>) \o CollapseNewlines(Tail(s), run + 1)
    ELSE <<Head(s)>> \o CollapseNewlines(Tail(s), 0)

\* The chain of replacements of lines 130-148.
HtmlToText(html) ==
    LET h1 == ReplacePairs(html, Opening("h1"), "</h1>", <<"#", SP>>, <<NL, NL>>)
        h2 == ReplacePairs(h1, Opening("h2"), "</h2>", <<"#", "#", SP>>, <<NL, NL>>)
        h3 == ReplacePairs(h2, Opening("h3"), "</h3>", <<"#", "#", "#", SP>>, <<NL, NL>>)
        h4 == ReplacePairs(h3, Opening("h4"), "</h4>", <<"#", "#", "#", "#", SP>>, <<NL, NL>>)
        pre == ReplacePreCode(h4)
        code == ReplacePairs(pre, Opening("code"), "</code>", <<BACKTICK>>, <<BACKTICK>>)
        strong == ReplacePairs(code, Opening("strong"), "</strong>", <<"*", "*">>, <<"*", "*">>)
        em == ReplacePairs(strong, Opening("em"), "</em>", <<"*">>, <<"*">>)
        a == ReplaceAnchors(em)
        li == ReplacePairs(a, Opening("li"), "</li>", <<DASH, SP>>, <<NL>>)
        para == ReplacePairs(li, Opening("p"), "</p>", <<>>, <<NL, NL>>)
        br == ReplaceAtoms(para, Opening("br"), <<NL>>)
        notags == ReplaceAtoms(br, Tags, <<>>)
        lt == ReplaceAtoms(notags, { "&lt;" }, <<"<">>)
        gt == ReplaceAtoms(lt, { "&gt;" }, <<">">>)
        amp == ReplaceAtoms(gt, { "&amp;" }, <<"&">>)
    IN  Trim(CollapseNewlines(amp, 0))

\* A slip in lines 120-122: a missing content region gives "" instead of the title.
copyPageMarkdownFromDomWithoutTitle(doc) ==
    IF ~doc.hasContentRoot THEN <<>> ELSE HtmlToText(InnerHtmlOfClone(doc.content))

\* button.closest(".md-content__inner") || document.querySelector(...) is the
\* page's one content region, or null.
copyPageMarkdownFromDom(doc) ==
    IF ~doc.hasContentRoot THEN doc.title
    ELSE HtmlToText(InnerHtmlOfClone(doc.content))

---------------------------------------------------------------------------
(* getCurrentMarkdownUrl, lines 151-171                                    *)

\* sourceLink: the href of a.md-content__button[title*="View source"] inside
\* the content region, as a <meta>-like record (absent, or present with href).
\* A slip in lines 153-155: the local URL whatever the caller asked for.
getCurrentMarkdownUrlAlwaysLocal(doc, preferLocal) ==
    getLocalMarkdownUrl(Origin, doc.pathname)

\* A slip in lines 168-170: without a source link there is no URL.
getCurrentMarkdownUrlOnlyFromLink(doc, preferLocal) ==
    IF preferLocal THEN getLocalMarkdownUrl(Origin, doc.pathname)
    ELSE IF doc.hasContentRoot /\ doc.sourceLink.present /\ doc.sourceLink.content # <<>>
        THEN normalizeGithubRawUrl(doc.sourceLink.content)
    ELSE <<>>

getCurrentMarkdownUrl(doc, preferLocal) ==
    IF preferLocal THEN getLocalMarkdownUrl(Origin, doc.pathname)
    ELSE IF doc.hasContentRoot /\ doc.sourceLink.present /\ doc.sourceLink.content # <<>>
        THEN normalizeGithubRawUrl(doc.sourceLink.content)
    ELSE getRawRepoBaseUrl(doc.metaRepo) \o <<SLASH, "docs", SLASH>>
             \o getMarkdownPathFromLocation(doc.pathname, doc.metaBasePath)

---------------------------------------------------------------------------
(* The cache and the two fetchers, lines 173-204                           *)

\* What a request ends with: a network error (fetch rejects, xhr.send throws)
\* or a response with a status and a body.
NetworkError == [error |-> TRUE, status |-> 0, body |-> <<>>]
Response(status, body) == [error |-> FALSE, status |-> status, body |-> body]
NoRequest == [error |-> FALSE, status |-> 0, body |-> <<>>]

\* Map.prototype.has and Map.prototype.set
Has(cache, url) == url \in DOMAIN cache
\* A slip in line 183: a new Map for every document.
SetReplacingCache(cache, url, markdown) == (url :> markdown)

\* A slip in line 183: the key is resolved again from the page on show.
SetUnderCurrentPage(cache, url, markdown) ==
    (getLocalMarkdownUrl(Origin, page.pathname) :> markdown) @@ cache

Set(cache, url, markdown) == (url :> markdown) @@ cache

\* Response.ok of the Fetch API: the status is in 200..299.
ResponseOk(status) == status >= 200 /\ status <= 299

\* A slip in lines 174-176: the cache is not consulted.
fetchMarkdownCachedNever(cache, markdownUrl) == FALSE

\* Lines 174-176: whether fetchMarkdown returns from the cache.
fetchMarkdownCached(cache, markdownUrl) == Has(cache, markdownUrl)

\* A slip in lines 179-181: the status of the response is not looked at.
fetchMarkdownRejectsOnlyOnError(outcome) == outcome.error

\* Lines 178-181: whether the promise of fetchMarkdown rejects at the first await.
fetchMarkdownRejects(outcome) == outcome.error \/ ~ResponseOk(outcome.status)

\* Lines 182-184: the document stored and returned for a response body.
fetchMarkdownDocument(body) == removeFrontMatter(body)

\* A slip in line 195: a 300 counts as success.
fetchMarkdownSyncAccepts300(cache, markdownUrl, xhr) ==
    IF markdownUrl = <<>> THEN [cache |-> cache, ret |-> <<>>, net |-> 0, set |-> FALSE]
    ELSE IF ~xhr.error /\ xhr.status >= 200 /\ xhr.status <= 300 /\ xhr.body # <<>>
        THEN [cache |-> Set(cache, markdownUrl, removeFrontMatter(xhr.body)),
              ret |-> removeFrontMatter(xhr.body), net |-> 1, set |-> TRUE]
    ELSE [cache |-> cache, ret |-> <<>>, net |-> 1, set |-> FALSE]

\* fetchMarkdownSync with the outcome xhr of its request: the cache after the
\* call, the value returned, the number of requests sent and whether line 197
\* ran.
\* A slip in lines 195-198: a document that is empty once stripped is not stored.
fetchMarkdownSyncSkipsEmpty(cache, markdownUrl, xhr) ==
    IF markdownUrl = <<>> THEN [cache |-> cache, ret |-> <<>>, net |-> 0, set |-> FALSE]
    ELSE IF /\ ~xhr.error /\ xhr.status >= 200 /\ xhr.status < 300 /\ xhr.body # <<>>
            /\ removeFrontMatter(xhr.body) # <<>>
        THEN [cache |-> Set(cache, markdownUrl, removeFrontMatter(xhr.body)),
              ret |-> removeFrontMatter(xhr.body), net |-> 1, set |-> TRUE]
    ELSE [cache |-> cache, ret |-> <<>>, net |-> 1, set |-> FALSE]

\* A slip in lines 187-190: the cache is looked at first, as in fetchMarkdown.
fetchMarkdownSyncCachedFirst(cache, markdownUrl, xhr) ==
    IF markdownUrl = <<>> THEN [cache |-> cache, ret |-> <<>>, net |-> 0, set |-> FALSE]
    ELSE IF Has(cache, markdownUrl)
        THEN [cache |-> cache, ret |-> cache[markdownUrl], net |-> 0, set |-> FALSE]
    ELSE IF ~xhr.error /\ xhr.status >= 200 /\ xhr.status < 300 /\ xhr.body # <<>>
        THEN [cache |-> Set(cache, markdownUrl, removeFrontMatter(xhr.body)),
              ret |-> removeFrontMatter(xhr.body), net |-> 1, set |-> TRUE]
    ELSE [cache |-> cache, ret |-> <<>>, net |-> 1, set |-> FALSE]

fetchMarkdownSync(cache, markdownUrl, xhr) ==
    IF markdownUrl = <<>> THEN [cache |-> cache, ret |-> <<>>, net |-> 0, set |-> FALSE]
    ELSE IF ~xhr.error /\ xhr.status >= 200 /\ xhr.status < 300 /\ xhr.body # <<>>
        THEN [cache |-> Set(cache, markdownUrl, removeFrontMatter(xhr.body)),
              ret |-> removeFrontMatter(xhr.body), net |-> 1, set |-> TRUE]
    ELSE [cache |-> cache, ret |-> <<>>, net |-> 1, set |-> FALSE]

---------------------------------------------------------------------------
(* The copy mechanisms, lines 238-262 and 301-319                          *)

\* document.execCommand("copy") returns true, returns false or throws.
ExecOutcomes == { "true", "false", "throw" }

\* navigator.clipboard.writeText exists or not.
ClipboardApis == { "present", "absent" }

Handed(mechanism, text) == [mechanism |-> mechanism, text |-> text]

\* tryExecCommandCopy: the value returned, whether execCommand threw, and the
\* textareas left in the document: line 246 is not reached when line 245 throws.
tryExecCommandCopy(text, exec) ==
    [copied |-> exec = "true", threw |-> exec = "throw",
     left |-> IF exec = "throw" THEN 1 ELSE 0]

\* A slip in lines 252-254: no return after the synchronous copy.
writeClipboardWithoutReturn(text, exec, api) ==
    LET copy == tryExecCommandCopy(text, exec)
    IN  IF copy.threw
            THEN [handed |-> <<Handed("execCommand", text)>>, result |-> "thrown", left |-> copy.left]
        ELSE IF api = "present"
            THEN [handed |-> <<Handed("execCommand", text), Handed("writeText", text)>>,
                  result |-> "awaiting", left |-> copy.left]
        ELSE [handed |-> <<Handed("execCommand", text)>>, result |-> "thrown", left |-> copy.left]

\* writeClipboard up to its first suspension: the mechanisms the text was
\* handed to, in order, and how the call stands: "copied" (returned),
\* "awaiting" (suspended at line 257) or "thrown" (execCommand threw, or line 261).
writeClipboard(text, exec, api) ==
    LET copy == tryExecCommandCopy(text, exec)
    IN  IF copy.threw
            THEN [handed |-> <<Handed("execCommand", text)>>, result |-> "thrown", left |-> copy.left]
        ELSE IF copy.copied
            THEN [handed |-> <<Handed("execCommand", text)>>, result |-> "copied", left |-> copy.left]
        ELSE IF api = "present"
            THEN [handed |-> <<Handed("execCommand", text), Handed("writeText", text)>>,
                  result |-> "awaiting", left |-> copy.left]
        ELSE [handed |-> <<Handed("execCommand", text)>>, result |-> "thrown", left |-> copy.left]

\* A slip in lines 301-306: navigator.clipboard.writeText is tried first.
copyOutputClipboardFirst(output, exec, api) ==
    IF api = "present"
        THEN [handed |-> <<Handed("writeText", output)>>, result |-> "awaiting", left |-> 0]
    ELSE LET copy == tryExecCommandCopy(output, exec)
         IN  IF copy.threw
                 THEN [handed |-> <<Handed("execCommand", output)>>, result |-> "thrown",
                       left |-> copy.left]
             ELSE IF copy.copied
                 THEN [handed |-> <<Handed("execCommand", output)>>, result |-> "copied",
                       left |-> copy.left]
             ELSE [handed |-> <<Handed("execCommand", output)>>, result |-> "failed",
                   left |-> copy.left]

\* A slip in lines 301-304: no return after the synchronous copy.
copyOutputWithoutReturn(output, exec, api) ==
    LET copy == tryExecCommandCopy(output, exec)
    IN  IF copy.threw
            THEN [handed |-> <<Handed("execCommand", output)>>, result |-> "thrown", left |-> copy.left]
        ELSE IF api = "present"
            THEN [handed |-> <<Handed("execCommand", output), Handed("writeText", output)>>,
                  result |-> "awaiting", left |-> copy.left]
        ELSE [handed |-> <<Handed("execCommand", output)>>, result |-> "failed", left |-> copy.left]

\* Lines 301-319 of handleCopyPage up to the promise of writeText: "copied"
\* (line 302), "awaiting" (lines 307-316), "failed" (line 319) or "thrown"
\* (execCommand threw: nothing in handleCopyPage catches it).
copyOutput(output, exec, api) ==
    LET copy == tryExecCommandCopy(output, exec)
    IN  IF copy.threw
            THEN [handed |-> <<Handed("execCommand", output)>>, result |-> "thrown", left |-> copy.left]
        ELSE IF copy.copied
            THEN [handed |-> <<Handed("execCommand", output)>>, result |-> "copied", left |-> copy.left]
        ELSE IF api = "present"
            THEN [handed |-> <<Handed("execCommand", output), Handed("writeText", output)>>,
                  result |-> "awaiting", left |-> copy.left]
        ELSE [handed |-> <<Handed("execCommand", output)>>, result |-> "failed", left |-> copy.left]

---------------------------------------------------------------------------
(* showToast and its timers, lines 264-281                                 *)

ToastVisibleMs == 2000
ToastFadeMs == 250

\* The step of the model's clock.
TickMs == ToastFadeMs

\* The toast elements alive at once: in the document or held by a pending timer.
MaxToasts == 2

LiveToastIds(ts, tm) == { ts[i].id : i \in 1..Len(ts) } \cup { t.toast : t \in tm }

CanToast(ts, tm) == \E id \in 1..MaxToasts : id \notin LiveToastIds(ts, tm)

FreshToastId(ts, tm) ==
    CHOOSE id \in 1..MaxToasts :
        /\ id \notin LiveToastIds(ts, tm)
        /\ \A other \in 1..MaxToasts : other \notin LiveToastIds(ts, tm) => id <= other

Timer(id, kind, ms) == [toast |-> id, kind |-> kind, ms |-> ms]

\* A slip in lines 265-268: the toast on show is not removed.
showToastWithoutRemove(ts, tm, message) ==
    LET id == FreshToastId(ts, tm)
    IN  [toasts |-> Append(ts, [id |-> id, message |-> message, show |-> TRUE]),
         timers |-> tm \cup { Timer(id, "hide", ToastVisibleMs) }]

\* showToast on the toasts ts of the document and the pending timers tm:
\* querySelector finds the first toast of the document, which is removed; the
\* new element is appended and its first timer set.
showToast(ts, tm, message) ==
    LET id == FreshToastId(ts, tm)
        kept == IF ts # <<>> THEN Tail(ts) ELSE ts
    IN  [toasts |-> Append(kept, [id |-> id, message |-> message, show |-> TRUE]),
         timers |-> tm \cup { Timer(id, "hide", ToastVisibleMs) }]

\* A slip in line 276: the callback looks the toast up in the document again
\* and hides whichever toast is there.
HideToastInDocument(ts, id) ==
    [i \in 1..Len(ts) |-> [ts[i] EXCEPT !.show = FALSE]]

\* classList.remove("show") on the element id, if it is in the document.
HideToast(ts, id) ==
    [i \in 1..Len(ts) |-> IF ts[i].id = id THEN [ts[i] EXCEPT !.show = FALSE] ELSE ts[i]]

\* element.remove()
RECURSIVE RemoveToast(_, _)
RemoveToast(ts, id) ==
    IF ts = <<>> THEN <<>>
    ELSE IF Head(ts).id = id THEN RemoveToast(Tail(ts), id)
    ELSE <<Head(ts)>> \o RemoveToast(Tail(ts), id)

CopiedMessage == "Page markdown copied."
FailedMessage == "Copy failed. Check clipboard permissions."
LinkCopiedMessage == "Markdown link copied."
NoUrlMessage == "No markdown source URL found."

---------------------------------------------------------------------------
(* openPrompt, lines 322-337                                               *)

\* encodeURIComponent on one atom: the reserved characters become escapes.
EncodeAtom(a) ==
    CASE a = SLASH -> "%2F"
      [] a = SP -> "%20"
      [] a = "?" -> "%3F"
      [] a = "#" -> "%23"
      [] a = "https:" -> "https%3A"
      [] a = "http:" -> "http%3A"
      [] OTHER -> a

encodeURIComponent(s) == [i \in 1..Len(s) |-> EncodeAtom(s[i])]

Prompt(markdownUrl) ==
    <<"Read", SP>> \o markdownUrl
        \o <<SP, "so", SP, "I", SP, "can", SP, "ask", SP, "questions", SP, "about", SP, "it.">>

\* A slip in lines 331-336: the branch of "claude" is missing.
openPromptAlwaysChatgpt(target, markdownUrl) ==
    <<"https:", SLASH, SLASH, "chatgpt.com", SLASH, "?", "hints=search&q=">>
        \o encodeURIComponent(Prompt(markdownUrl))

\* The address openPrompt hands to window.open, or <<>> when it opens nothing.
openPrompt(target, markdownUrl) ==
    IF target = "chatgpt"
        THEN <<"https:", SLASH, SLASH, "chatgpt.com", SLASH, "?", "hints=search&q=">>
                 \o encodeURIComponent(Prompt(markdownUrl))
    ELSE IF target = "claude"
        THEN <<"https:", SLASH, SLASH, "claude.ai", SLASH, "new", "?", "q=">>
                 \o encodeURIComponent(Prompt(markdownUrl))
    ELSE <<>>

---------------------------------------------------------------------------
(* The pages of the site and the answers of its server                     *)

GithubSourceHref ==
    <<"https:", SLASH, SLASH, "github.com", SLASH, "jeffersonaaron25", SLASH, "pyeztrace",
      SLASH, "raw", SLASH, "main", SLASH, "docs", SLASH, "usage", ".md">>

\* /usage/: a content region with text and a "View source" link.
UsagePage ==
    [pathname |-> <<SLASH, "usage", SLASH>>,
     title |-> <<"Usage">>,
     hasContentRoot |-> TRUE,
     content |-> << Chunk(<<"<h1>", "Usage">>), Removed(<<"<a href=\"u\">", "#", "</a>">>),
                    Chunk(<<"</h1>", "<p>", "Hello", "<br>", "<strong>", "World", "</strong>", "</p>">>) >>,
     sourceLink |-> Meta(GithubSourceHref),
     metaRepo |-> NoMeta,
     metaBasePath |-> NoMeta]

\* /: a content region that holds no text, no source link, a repository base
\* with a trailing slash.
HomePage ==
    [pathname |-> <<SLASH>>,
     title |-> <<"PyEzTrace">>,
     hasContentRoot |-> TRUE,
     content |-> << Removed(<<"<script>", "x", "</script>">>), Chunk(<<"<div>", "</div>", NL>>) >>,
     sourceLink |-> NoMeta,
     metaRepo |-> Meta(<<"https:", SLASH, SLASH, "example.org", SLASH, "raw", SLASH>>),
     metaBasePath |-> NoMeta]

\* /docs/configuration.html: no content region, the base path /docs.
BarePage ==
    [pathname |-> <<SLASH, "docs", SLASH, "configuration", ".html">>,
     title |-> <<"Configuration">>,
     hasContentRoot |-> FALSE,
     content |-> <<>>,
     sourceLink |-> NoMeta,
     metaRepo |-> NoMeta,
     metaBasePath |-> Meta(<<SLASH, "docs">>)]

Pages == { UsagePage, HomePage, BarePage }

LocalUrls == { getLocalMarkdownUrl(Origin, pg.pathname) : pg \in Pages }

\* The example of the specification, and a body that is front matter only.
ExampleBody ==
    <<DASH, DASH, DASH, NL, "title:", SP, "x", NL, DASH, DASH, DASH, NL,
      "Hello", NL, NL, "World">>

FrontMatterOnlyBody == <<DASH, DASH, DASH, NL, "title:", SP, "x", NL, DASH, DASH, DASH, NL>>

NotFoundBody == <<"Not", SP, "Found">>

\* The site is static: the markdown file behind each URL has one body for the
\* whole session.  /usage/index.md is the example, /index.md is front matter
\* only, and the file of the bare page is empty.
ServedBody(url) ==
    IF url = getLocalMarkdownUrl(Origin, UsagePage.pathname) THEN ExampleBody
    ELSE IF url = getLocalMarkdownUrl(Origin, HomePage.pathname) THEN FrontMatterOnlyBody
    ELSE <<>>

SuccessStatuses == { 200, 299 }
FailureStatuses == { 300, 404 }

\* What a request for url can end with: a network error, the file, or an
\* error page.
Outcomes(url) ==
    { NetworkError } \cup { Response(st, ServedBody(url)) : st \in SuccessStatuses }
        \cup { Response(st, NotFoundBody) : st \in FailureStatuses }

AllOutcomes == UNION { Outcomes(u) : u \in LocalUrls }

---------------------------------------------------------------------------
(* The state machine                                                       *)

\* The fetchMarkdown calls suspended at once.
MaxFetches == 2

\* The writeText promises pending at once.
MaxWrites == 1

\* The temporary textareas left behind in the document.
MaxTextareas == 1

NoCall == [fn |-> "none", arg |-> <<>>, mid |-> <<>>, ret |-> <<>>]

\* What a handler did: the URL it resolved, whether that URL was cached when
\* it started, the requests it sent and what the last one ended with, how its
\* promise stands, the value returned, the texts handed to copy mechanisms,
\* the outcome of execCommand, whether an exception left the handler, the
\* toast shown, the address opened, whether the event was suppressed, whether
\* the cache changed, whether closeDropdown ran, whether console.error ran,
\* for a settled fetch who had called fetchMarkdown, for a response that was
\* read its body, and whether navigator.clipboard.writeText existed.
Event(op) ==
    [op |-> op, url |-> <<>>, hit |-> FALSE, net |-> 0, response |-> NoRequest,
     settled |-> "none", ret |-> <<>>, handed |-> <<>>, exec |-> "none", threw |-> FALSE,
     toast |-> "", opened |-> <<>>, suppressed |-> FALSE, cacheChanged |-> FALSE,
     closed |-> FALSE, logged |-> FALSE, by |-> "", body |-> <<>>, api |-> "none"]

Fetch(url, by) == [url |-> url, stage |-> "fetch", by |-> by]

RemoveAt(seq, i) == SubSeq(seq, 1, i - 1) \o SubSeq(seq, i + 1, Len(seq))

\* The script has run on the first page: the listeners are registered, the
\* cache is empty and the prefetch of lines 421-431 is suspended at its fetch.
Init ==
    /\ call = NoCall
    /\ page \in Pages
    /\ markdownCache = <<>>
    /\ cachedBy = <<>>
    /\ fetches = << Fetch(getLocalMarkdownUrl(Origin, page.pathname), "prefetch") >>
    /\ writes = <<>>
    /\ toasts = <<>>
    /\ timers = {}
    /\ textareas = 0
    /\ last = [Event("prefetchCurrentPageMarkdown") EXCEPT
                  !.url = getLocalMarkdownUrl(Origin, page.pathname),
                  !.net = 1, !.settled = "pending"]

\* An instant navigation to page pg; document$ emits and the subscriber of
\* lines 422-424 runs prefetchCurrentPageMarkdown up to its await.
Navigate(pg) ==
    LET markdownUrl == getCurrentMarkdownUrl(pg, TRUE)
        skip == markdownUrl = <<>> \/ Has(markdownCache, markdownUrl)
        cached == ~skip /\ fetchMarkdownCached(markdownCache, markdownUrl)
    IN  /\ page' = pg
        /\ skip \/ cached \/ Len(fetches) < MaxFetches
        /\ fetches' = IF skip \/ cached THEN fetches
                      ELSE Append(fetches, Fetch(markdownUrl, "prefetch"))
        /\ last' = [Event("prefetchCurrentPageMarkdown") EXCEPT
                       !.url = markdownUrl,
                       !.hit = Has(markdownCache, markdownUrl),
                       !.net = IF skip \/ cached THEN 0 ELSE 1,
                       !.settled = IF skip \/ cached THEN "resolved" ELSE "pending"]
        /\ UNCHANGED <<call, markdownCache, cachedBy, writes, toasts, timers, textareas>>

\* A call fetchMarkdown(markdownUrl) up to its first await, by a caller that
\* does not look at the cache itself.
CallFetchMarkdown(markdownUrl) ==
    LET cached == fetchMarkdownCached(markdownCache, markdownUrl)
    IN  /\ cached \/ Len(fetches) < MaxFetches
        /\ fetches' = IF cached THEN fetches ELSE Append(fetches, Fetch(markdownUrl, "caller"))
        /\ last' = [Event("fetchMarkdown") EXCEPT
                       !.url = markdownUrl,
                       !.hit = Has(markdownCache, markdownUrl),
                       !.net = IF cached THEN 0 ELSE 1,
                       !.settled = IF cached THEN "resolved" ELSE "pending",
                       !.ret = IF cached THEN markdownCache[markdownUrl] ELSE <<>>]
        /\ UNCHANGED <<call, page, markdownCache, cachedBy, writes, toasts, timers, textareas>>

\* A slip in lines 210-215: prefetchCurrentPageMarkdown without its try/catch.
RejectionEscapesUncaught(by, rejected) == rejected

\* Whether the rejection of fetchMarkdown leaves its caller: the try/catch of
\* prefetchCurrentPageMarkdown (lines 210-215) swallows it.
RejectionEscapes(by, rejected) == rejected /\ by # "prefetch"

\* The fetch of the suspended call i settles with outcome (line 178): a
\* rejection or a response that is not ok rejects fetchMarkdown, which a
\* prefetch swallows (lines 213-215); otherwise the call goes on to await the
\* body of the response.
FetchSettles(i, outcome) ==
    /\ i \in 1..Len(fetches)
    /\ fetches[i].stage = "fetch"
    /\ outcome \in Outcomes(fetches[i].url)
    /\ fetches' = IF fetchMarkdownRejects(outcome)
                      THEN RemoveAt(fetches, i)
                      ELSE [fetches EXCEPT ![i].stage = "text"]
    /\ UNCHANGED <<markdownCache, cachedBy>>
    /\ last' = [Event("fetch settled") EXCEPT
                   !.url = fetches[i].url,
                   !.hit = Has(markdownCache, fetches[i].url),
                   !.response = outcome,
                   !.settled = IF fetchMarkdownRejects(outcome) THEN "rejected" ELSE "pending",
                   !.threw = RejectionEscapes(fetches[i].by, fetchMarkdownRejects(outcome)),
                   !.cacheChanged = (markdownCache' # markdownCache),
                   !.by = fetches[i].by]
    /\ UNCHANGED <<call, page, writes, toasts, timers, textareas>>

\* The body of the response of call i arrives (lines 182-184).
BodyArrives(i) ==
    /\ i \in 1..Len(fetches)
    /\ fetches[i].stage = "text"
    /\ LET markdown == fetchMarkdownDocument(ServedBody(fetches[i].url))
       IN  /\ markdownCache' = Set(markdownCache, fetches[i].url, markdown)
           /\ cachedBy' = Set(cachedBy, fetches[i].url, fetches[i].by)
           /\ last' = [Event("text settled") EXCEPT
                          !.url = fetches[i].url,
                          !.hit = Has(markdownCache, fetches[i].url),
                          !.body = ServedBody(fetches[i].url),
                          !.settled = "resolved",
                          !.ret = markdown,
                          !.cacheChanged = (markdownCache' # markdownCache),
                          !.by = fetches[i].by]
    /\ fetches' = RemoveAt(fetches, i)
    /\ UNCHANGED <<call, page, writes, toasts, timers, textareas>>

\* A call fetchMarkdownSync(markdownUrl) whose request ends with xhr.
CallFetchMarkdownSync(markdownUrl, xhr) ==
    LET got == fetchMarkdownSync(markdownCache, markdownUrl, xhr)
    IN  /\ xhr \in Outcomes(markdownUrl)
        /\ markdownCache' = got.cache
        /\ cachedBy' = IF got.set THEN Set(cachedBy, markdownUrl, "sync") ELSE cachedBy
        /\ last' = [Event("fetchMarkdownSync") EXCEPT
                       !.url = markdownUrl,
                       !.hit = Has(markdownCache, markdownUrl),
                       !.net = got.net,
                       !.response = IF got.net > 0 THEN xhr ELSE NoRequest,
                       !.settled = "returned",
                       !.ret = got.ret,
                       !.cacheChanged = (got.cache # markdownCache)]
        /\ UNCHANGED <<call, page, fetches, writes, toasts, timers, textareas>>

\* Lines 288-295 of handleCopyPage: the document taken from the cache or from
\* fetchMarkdownSync, with the cache afterwards and the requests sent.
CopyPageSource(markdownUrl, cache, xhr) ==
    IF markdownUrl # <<>> /\ Has(cache, markdownUrl)
        THEN [cache |-> cache, ret |-> cache[markdownUrl], net |-> 0, set |-> FALSE]
    ELSE IF markdownUrl # <<>> THEN fetchMarkdownSync(cache, markdownUrl, xhr)
    ELSE [cache |-> cache, ret |-> <<>>, net |-> 0, set |-> FALSE]

\* A slip in lines 297-299: the text of the page replaces every document.
CopyPageOutputAlwaysFromDom(doc, output) == copyPageMarkdownFromDom(doc)

\* Lines 297-299: an empty document is replaced by the text of the page.
CopyPageOutput(doc, output) ==
    IF output = <<>> THEN copyPageMarkdownFromDom(doc) ELSE output

\* The toast a handler shows, if it shows one.
Toasted(shown) ==
    IF shown # "" THEN showToast(toasts, timers, shown)
    ELSE [toasts |-> toasts, timers |-> timers]

\* A click on the "Copy page" button: handleCopyPage up to its return.  xhr is
\* what the request of fetchMarkdownSync ends with when one is sent, exec what
\* execCommand does, api whether navigator.clipboard.writeText exists.
HandleCopyPage(xhr, exec, api) ==
    \E markdownUrl \in { getCurrentMarkdownUrl(page, TRUE) } :
    \E got \in { CopyPageSource(markdownUrl, markdownCache, xhr) } :
    \E output \in { CopyPageOutput(page, got.ret) } :
    \E copy \in { copyOutput(output, exec, api) } :
    \E shown \in { IF copy.result = "copied" THEN CopiedMessage
                   ELSE IF copy.result = "failed" THEN FailedMessage
                   ELSE "" } :
        /\ IF got.net = 0 THEN xhr = NoRequest ELSE xhr \in Outcomes(markdownUrl)
        /\ CanToast(toasts, timers)
        /\ copy.result = "awaiting" => Len(writes) < MaxWrites
        /\ textareas + copy.left <= MaxTextareas
        /\ markdownCache' = got.cache
        /\ cachedBy' = IF got.set THEN Set(cachedBy, markdownUrl, "sync") ELSE cachedBy
        /\ textareas' = textareas + copy.left
        /\ writes' = IF copy.result = "awaiting" THEN Append(writes, "copy-page") ELSE writes
        /\ toasts' = Toasted(shown).toasts
        /\ timers' = Toasted(shown).timers
        /\ last' = [Event("handleCopyPage") EXCEPT
                       !.url = markdownUrl,
                       !.hit = Has(markdownCache, markdownUrl),
                       !.net = got.net,
                       !.response = xhr,
                       !.settled = IF got.ret = <<>> THEN "dom" ELSE "source",
                       !.ret = output,
                       !.handed = copy.handed,
                       !.exec = exec,
                       !.api = api,
                       !.threw = (copy.result = "thrown"),
                       !.toast = shown,
                       !.suppressed = TRUE,
                       !.cacheChanged = (got.cache # markdownCache)]
        /\ UNCHANGED <<call, page, fetches>>

\* A slip in lines 345-350: the set holds the page copy of the plugin too.
RecognizedActionsWithCopyMarkdown ==
    { "copy-markdown", "copy-markdown-link", "view-markdown", "open-chatgpt", "open-claude" }

\* handledActions, lines 345-350.
RecognizedActions == { "copy-markdown-link", "view-markdown", "open-chatgpt", "open-claude" }

\* item.dataset.action: missing, a command of the plugin the script does not
\* handle, or one of those it does.
DatasetActions == { "", "copy-markdown" } \cup RecognizedActions

\* Lines 374-387: the address a handled command opens in a new tab.
Opened(action, markdownUrl) ==
    IF action = "view-markdown" THEN markdownUrl
    ELSE IF action = "open-chatgpt" THEN openPrompt("chatgpt", markdownUrl)
    ELSE IF action = "open-claude" THEN openPrompt("claude", markdownUrl)
    ELSE <<>>

\* A click on an item of the dropdown: handleDropdownAction up to its first
\* suspension (the await of line 368 when writeClipboard awaits writeText).
\* exec and api are looked at by the link copy only.
HandleDropdownAction(action, exec, api) ==
    \E markdownUrl \in { getCurrentMarkdownUrl(page, FALSE) } :
    \E handled \in { action # "" /\ action \in RecognizedActions } :
    \E copies \in { handled /\ markdownUrl # <<>> /\ action = "copy-markdown-link" } :
    \E copy \in { IF copies THEN writeClipboard(markdownUrl, exec, api)
                  ELSE [handed |-> <<>>, result |-> "none", left |-> 0] } :
    \E shown \in { IF ~handled THEN ""
                   ELSE IF markdownUrl = <<>> THEN NoUrlMessage
                   ELSE IF copy.result = "copied" THEN LinkCopiedMessage
                   ELSE "" } :
        /\ IF copies THEN exec \in ExecOutcomes /\ api \in ClipboardApis
           ELSE exec = "none" /\ api = "none"
        /\ CanToast(toasts, timers)
        /\ copy.result = "awaiting" => Len(writes) < MaxWrites
        /\ textareas + copy.left <= MaxTextareas
        /\ textareas' = textareas + copy.left
        /\ writes' = IF copy.result = "awaiting" THEN Append(writes, "copy-markdown-link")
                     ELSE writes
        /\ toasts' = Toasted(shown).toasts
        /\ timers' = Toasted(shown).timers
        /\ last' = [Event("handleDropdownAction") EXCEPT
                       !.url = IF handled THEN markdownUrl ELSE <<>>,
                       !.settled = IF copy.result = "awaiting" THEN "pending" ELSE "resolved",
                       !.ret = <<action>>,
                       !.handed = copy.handed,
                       !.exec = exec,
                       !.api = api,
                       !.toast = shown,
                       !.opened = IF handled /\ markdownUrl # <<>>
                                      THEN Opened(action, markdownUrl) ELSE <<>>,
                       !.suppressed = handled,
                       !.closed = handled /\ copy.result # "awaiting",
                       !.logged = (copy.result = "thrown")]
        /\ UNCHANGED <<call, page, markdownCache, cachedBy, fetches>>

\* The promise of navigator.clipboard.writeText number i settles: the
\* callbacks of lines 309-315 run for a page copy, the rest of
\* handleDropdownAction (lines 369-371, or 390-393) for a link copy.
WriteSettles(i, fulfilled) ==
    /\ i \in 1..Len(writes)
    /\ CanToast(toasts, timers)
    /\ \E shown \in { IF writes[i] = "copy-page"
                          THEN (IF fulfilled THEN CopiedMessage ELSE FailedMessage)
                          ELSE (IF fulfilled THEN LinkCopiedMessage ELSE "") } :
           /\ toasts' = Toasted(shown).toasts
           /\ timers' = Toasted(shown).timers
           /\ last' = [Event("writeText settled") EXCEPT
                          !.settled = IF fulfilled THEN "resolved" ELSE "rejected",
                          !.ret = <<writes[i]>>,
                          !.toast = shown,
                          !.closed = (writes[i] = "copy-markdown-link"),
                          !.logged = ~fulfilled]
    /\ writes' = RemoveAt(writes, i)
    /\ UNCHANGED <<call, page, markdownCache, cachedBy, fetches, textareas>>

\* The time to the timer that is due first.
NextDeadline(tm) == CHOOSE ms \in { t.ms : t \in tm } : \A t \in tm : ms <= t.ms

\* ms milliseconds pass and no timer comes due before their end.
Elapse(ms) ==
    /\ timers # {}
    /\ ms > 0
    /\ \A t \in timers : t.ms >= ms
    /\ timers' = { Timer(t.toast, t.kind, t.ms - ms) : t \in timers }
    /\ last' = Event("elapse")
    /\ UNCHANGED <<call, page, markdownCache, cachedBy, fetches, writes, toasts, textareas>>

\* A due timer runs: the callback of lines 275-280 takes "show" off its toast
\* and sets the second timer; the callback of lines 277-279 removes its toast.
TimerFires(t) ==
    /\ t \in timers
    /\ t.ms = 0
    /\ IF t.kind = "hide"
           THEN /\ toasts' = HideToast(toasts, t.toast)
                /\ timers' = (timers \ {t}) \cup { Timer(t.toast, "remove", ToastFadeMs) }
           ELSE /\ toasts' = RemoveToast(toasts, t.toast)
                /\ timers' = timers \ {t}
    /\ last' = [Event("timer") EXCEPT !.ret = <<t.kind>>]
    /\ UNCHANGED <<call, page, markdownCache, cachedBy, fetches, writes, textareas>>

\* No toast is on show or fading.
Quiet == timers = {}

\* What the request of a click on "Copy page" can end with: no request is
\* sent for a cached URL.
SyncOutcomes ==
    IF Has(markdownCache, getLocalMarkdownUrl(Origin, page.pathname)) THEN { NoRequest }
    ELSE Outcomes(getLocalMarkdownUrl(Origin, page.pathname))

\* The outcomes of the copy mechanisms a click on item d can meet.
ExecFor(d) == IF d = "copy-markdown-link" THEN ExecOutcomes ELSE { "none" }
ApiFor(d) == IF d = "copy-markdown-link" THEN ClipboardApis ELSE { "none" }

\* The site in use: the reader clicks once the toast of the click before has
\* gone, and leaves a page once its prefetch has settled; fetchMarkdown is
\* also called on its own for the URLs of the cache.
Next ==
    \/ \E pg \in Pages : Quiet /\ fetches = <<>> /\ Navigate(pg)
    \/ \E u \in DOMAIN markdownCache : Quiet /\ CallFetchMarkdown(u)
    \/ \E u \in DOMAIN markdownCache, x \in AllOutcomes : Quiet /\ CallFetchMarkdownSync(u, x)
    \/ \E i \in 1..MaxFetches, o \in AllOutcomes : Quiet /\ FetchSettles(i, o)
    \/ \E i \in 1..MaxFetches : Quiet /\ BodyArrives(i)
    \/ \E x \in SyncOutcomes, e \in ExecOutcomes, a \in ClipboardApis :
           Quiet /\ HandleCopyPage(x, e, a)
    \/ \E d \in DatasetActions : \E e \in ExecFor(d), a \in ApiFor(d) :
           Quiet /\ HandleDropdownAction(d, e, a)
    \/ \E i \in 1..MaxWrites, f \in BOOLEAN : Quiet /\ WriteSettles(i, f)
    \/ timers # {} /\ Elapse(NextDeadline(timers))
    \/ \E t \in timers : TimerFires(t)

Spec == Init /\ [][Next]_vars

\* The fetchers on their own: the reader moves on whether or not a prefetch
\* is pending, the network answers, and the two fetchers are called directly
\* while no call of fetchMarkdown is suspended.
NextFetch ==
    \/ \E pg \in Pages : Navigate(pg)
    \/ \E u \in LocalUrls : fetches = <<>> /\ CallFetchMarkdown(u)
    \/ \E i \in 1..MaxFetches, o \in AllOutcomes : FetchSettles(i, o)
    \/ \E i \in 1..MaxFetches : BodyArrives(i)
    \/ \E u \in LocalUrls, x \in AllOutcomes : fetches = <<>> /\ CallFetchMarkdownSync(u, x)

SpecFetch == Init /\ [][NextFetch]_vars

\* Clicks in quick succession on one page while the network is down, under a
\* clock that steps by TickMs.
NextToast ==
    \/ \E e \in ExecOutcomes \ {"throw"}, a \in ClipboardApis : HandleCopyPage(NetworkError, e, a)
    \/ \E d \in DatasetActions : \E e \in ExecFor(d) \ {"throw"}, a \in ApiFor(d) :
           HandleDropdownAction(d, e, a)
    \/ \E i \in 1..MaxWrites, f \in BOOLEAN : WriteSettles(i, f)
    \/ Elapse(TickMs)
    \/ \E t \in timers : TimerFires(t)

SpecToast == Init /\ [][NextToast]_vars

\* The clock of the browser goes on and a timer that is due runs.
SpecToastFair ==
    /\ SpecToast
    /\ WF_vars(Elapse(TickMs))
    /\ WF_vars(\E t \in timers : TimerFires(t))

\* The visitor moves from page to page while fetches are pending and copies
\* the page on show: a navigation does not cancel the prefetch of the page
\* left, and the fetches settle in any order.
NextSupersede ==
    \/ \E pg \in Pages : Quiet /\ Navigate(pg)
    \/ \E i \in 1..MaxFetches, o \in AllOutcomes : Quiet /\ FetchSettles(i, o)
    \/ \E i \in 1..MaxFetches : Quiet /\ BodyArrives(i)
    \/ \E x \in SyncOutcomes : Quiet /\ HandleCopyPage(x, "true", "absent")
    \/ timers # {} /\ Elapse(NextDeadline(timers))
    \/ \E t \in timers : TimerFires(t)

SpecSupersede == Init /\ [][NextSupersede]_vars

\* The state of the page while a function is looked at on its own.
Idle ==
    /\ page = UsagePage
    /\ markdownCache = <<>>
    /\ cachedBy = <<>>
    /\ fetches = <<>>
    /\ writes = <<>>
    /\ toasts = <<>>
    /\ timers = {}
    /\ textareas = 0
    /\ last = Event("none")

---------------------------------------------------------------------------
(* Inputs of the front-matter checks                                       *)

MaxLines == 4

LineChoices ==
    { <<>>, Delimiter, <<SP>> \o Delimiter, Delimiter \o <<SP>>,
      Delimiter \o <<DASH>>, <<DASH, DASH>>, <<"x">>, <<SP, "x">> }

Texts ==
    { Join(ls, NL) : ls \in UNION { [1..n -> LineChoices] : n \in 1..MaxLines } }

Input(a) == [fn |-> "input", arg |-> a, mid |-> <<>>, ret |-> <<>>]

Returned(f, a, r) == [fn |-> f, arg |-> a, mid |-> <<>>, ret |-> r]

InitStrip == Idle /\ call \in { Input(t) : t \in Texts }

CallRemoveFrontMatter ==
    /\ call.fn = "input"
    /\ call' = Returned("removeFrontMatter", call.arg, removeFrontMatter(call.arg))
    /\ UNCHANGED sysvars

NextStrip == CallRemoveFrontMatter

SpecStrip == InitStrip /\ [][NextStrip]_vars

---------------------------------------------------------------------------
(* Inputs of the URL normalizer checks                                     *)

MaxSegments == 5

Schemes == { "https:", "http:", "ftp:" }

Hosts == { "github.com", "raw.githubusercontent.com", "example.org" }

SegmentChoices == { <<"acme">>, <<"raw">>, <<>>, <<"x", ".md">> }

UrlOf(scheme, host, segs) ==
    <<scheme, SLASH, SLASH, host>> \o
        (IF segs = <<>> THEN <<>> ELSE <<SLASH>> \o Join(segs, SLASH))

SpecExampleUrl ==
    UrlOf("https:", "github.com",
          << <<"acme">>, <<"widgets">>, <<"raw">>, <<"main">>, <<"docs">>, <<"x", ".md">> >>)

Urls ==
    { UrlOf(sc, h, segs) :
        sc \in Schemes, h \in Hosts,
        segs \in UNION { [1..n -> SegmentChoices] : n \in 0..MaxSegments } }
    \cup { SpecExampleUrl, <<>> }

InitNormalize == Idle /\ call \in { Input(u) : u \in Urls }

CallNormalizeGithubRawUrl ==
    /\ call.fn = "input"
    /\ call' = Returned("normalizeGithubRawUrl", call.arg, normalizeGithubRawUrl(call.arg))
    /\ UNCHANGED sysvars

\* The normalizer applied to its own result.
CallNormalizeGithubRawUrlAgain ==
    /\ call.fn = "normalizeGithubRawUrl"
    /\ call' = [fn |-> "normalizeGithubRawUrl twice", arg |-> call.arg,
                mid |-> call.ret, ret |-> normalizeGithubRawUrl(call.ret)]
    /\ UNCHANGED sysvars

NextNormalize == CallNormalizeGithubRawUrl \/ CallNormalizeGithubRawUrlAgain

SpecNormalize == InitNormalize /\ [][NextNormalize]_vars

---------------------------------------------------------------------------
(* Inputs of the location checks                                           *)

MaxPathSegments == 3

PathSegmentChoices ==
    { <<"docs">>, <<"usage">>, <<>>, <<"index", ".html">>, <<"usage", ".html">>,
      <<"usage", ".md">> }

Pathnames ==
    { <<SLASH>> \o Join(segs, SLASH) :
        segs \in UNION { [1..n -> PathSegmentChoices] : n \in 1..MaxPathSegments } }

BasePathMetas ==
    { NoMeta, Meta(<<>>), Meta(<<SLASH, "docs">>), Meta(<<"docs">>),
      Meta(<<SLASH, "docs", SLASH>>) }

InitLocation ==
    /\ Idle
    /\ call \in { Input([pathname |-> p, metaBasePath |-> m]) :
                 p \in Pathnames, m \in BasePathMetas }

CallGetMarkdownPathFromLocation ==
    /\ call.fn = "input"
    /\ call' = Returned("getMarkdownPathFromLocation", call.arg,
                   getMarkdownPathFromLocation(call.arg.pathname, call.arg.metaBasePath))
    /\ UNCHANGED sysvars

CallGetLocalMarkdownUrl ==
    /\ call.fn = "input"
    /\ call' = Returned("getLocalMarkdownUrl", call.arg,
                   getLocalMarkdownUrl(Origin, call.arg.pathname))
    /\ UNCHANGED sysvars

NextLocation == CallGetMarkdownPathFromLocation \/ CallGetLocalMarkdownUrl

SpecLocation == InitLocation /\ [][NextLocation]_vars

---------------------------------------------------------------------------
(* Inputs of the checks of getCurrentMarkdownUrl                           *)

\* meta[name="mkdocs-copy-to-llm-repo-url"]: absent, empty, only a slash, or
\* a repository base with a trailing slash.
RepoMetas ==
    { NoMeta, Meta(<<>>), Meta(<<SLASH>>),
      Meta(<<"https:", SLASH, SLASH, "example.org", SLASH, "raw", SLASH>>) }

\* The "View source of this page" link: absent, without href, or with one.
SourceLinks == { NoMeta, Meta(<<>>), Meta(GithubSourceHref) }

\* The documents getCurrentMarkdownUrl is called on.
Docs ==
    { [pathname |-> p, title |-> <<"Usage">>, hasContentRoot |-> r, content |-> <<>>,
       sourceLink |-> l, metaRepo |-> b, metaBasePath |-> m] :
        p \in Pathnames, r \in BOOLEAN, l \in SourceLinks, b \in RepoMetas,
        m \in BasePathMetas }

InitResolve == Idle /\ call \in { Input(d) : d \in Docs }

\* getCurrentMarkdownUrl(button, { preferLocal: true }) on the document.
CallGetCurrentMarkdownUrlLocal ==
    /\ call.fn = "input"
    /\ call' = Returned("getCurrentMarkdownUrl local", call.arg,
                   getCurrentMarkdownUrl(call.arg, TRUE))
    /\ UNCHANGED sysvars

\* getCurrentMarkdownUrl(item) on the same document, after the local call.
CallGetCurrentMarkdownUrlRemote ==
    /\ call.fn = "getCurrentMarkdownUrl local"
    /\ call' = [fn |-> "getCurrentMarkdownUrl both", arg |-> call.arg,
                mid |-> call.ret, ret |-> getCurrentMarkdownUrl(call.arg, FALSE)]
    /\ UNCHANGED sysvars

NextResolve == CallGetCurrentMarkdownUrlLocal \/ CallGetCurrentMarkdownUrlRemote

SpecResolve == InitResolve /\ [][NextResolve]_vars

\* The documents whose path has at most two pieces, the source link being
\* looked for in the content region only.
ShortDocs ==
    { d \in Docs : /\ Len(Split(d.pathname, SLASH)) <= 3
                   /\ d.hasContentRoot \/ ~d.sourceLink.present }

\* The script on any of these documents, its prefetch over: the visitor
\* clicks through the dropdown and on "Copy page" with no network.
InitDispatch ==
    /\ call = NoCall
    /\ page \in ShortDocs
    /\ markdownCache = <<>>
    /\ cachedBy = <<>>
    /\ fetches = <<>>
    /\ writes = <<>>
    /\ toasts = <<>>
    /\ timers = {}
    /\ textareas = 0
    /\ last = Event("none")

NextDispatch ==
    \/ \E d \in DatasetActions : \E e \in ExecFor(d), a \in ApiFor(d) :
           Quiet /\ HandleDropdownAction(d, e, a)
    \/ Quiet /\ HandleCopyPage(NetworkError, "true", "absent")
    \/ \E i \in 1..MaxWrites, f \in BOOLEAN : Quiet /\ WriteSettles(i, f)
    \/ timers # {} /\ Elapse(NextDeadline(timers))
    \/ \E t \in timers : TimerFires(t)

SpecDispatch == InitDispatch /\ [][NextDispatch]_vars

---------------------------------------------------------------------------
(* C3: front-matter stripping                                              *)

\* The lines after 1-based line k, joined and trimmed.
AfterLine(lines, k) == Trim(Join(SubSeq(lines, k + 1, Len(lines)), NL))

Least(S) == CHOOSE k \in S : \A m \in S : k <= m

\* C3 as stated: if the first line is exactly "---" and k is the first later
\* line that is exactly "---", the result is the trimmed text after line k; in
\* every other case the result is the trimmed input.
C3_AsStated ==
    call.fn = "removeFrontMatter" =>
        LET lines == Split(call.arg, NL)
            closing == { k \in 2..Len(lines) : lines[k] = Delimiter }
        IN  IF lines[1] = Delimiter /\ closing # {}
                THEN call.ret = AfterLine(lines, Least(closing))
                ELSE call.ret = Trim(call.arg)

\* C3 as amended: if the text starts with the three characters "---" and k is
\* the first later line that is "---" once its surrounding white space is
\* trimmed, the result is the trimmed text after line k; in every other case
\* the result is the trimmed input.
C3_FrontMatter ==
    call.fn = "removeFrontMatter" =>
        LET lines == Split(call.arg, NL)
            closing == { k \in 2..Len(lines) : Trim(lines[k]) = Delimiter }
        IN  IF StartsWith(call.arg, Delimiter) /\ closing # {}
                THEN call.ret = AfterLine(lines, Least(closing))
                ELSE call.ret = Trim(call.arg)

\* A front-matter block was cut off a text whose body is not empty.
C3_Witness ==
    /\ call.fn = "removeFrontMatter"
    /\ StartsWith(call.arg, Delimiter)
    /\ call.ret # <<>>
    /\ call.ret # Trim(call.arg)

---------------------------------------------------------------------------
(* C4: raw-URL normalization                                               *)

NoSlash(s) == \A i \in 1..Len(s) : s[i] # SLASH

\* The ways to read url as <scheme>//github.com/<owner>/<repo>/raw/<ref>/<path>
\* with non-empty, slash-free owner, repo and ref and a non-empty path; a, b, c
\* are the positions where owner, repo and ref end.
GithubRawShapes(url, scheme) ==
    { parts \in { [owner |-> SubSeq(url, 6, a), repo |-> SubSeq(url, a + 2, b),
                   ref |-> SubSeq(url, b + 4, c), path |-> SubSeq(url, c + 2, Len(url))] :
                     a \in 6..Len(url), b \in 8..Len(url), c \in 12..Len(url) } :
        /\ url = <<scheme, SLASH, SLASH, "github.com", SLASH>> \o parts.owner
                    \o <<SLASH>> \o parts.repo \o <<SLASH, "raw", SLASH>> \o parts.ref
                    \o <<SLASH>> \o parts.path
        /\ parts.owner # <<>> /\ NoSlash(parts.owner)
        /\ parts.repo # <<>> /\ NoSlash(parts.repo)
        /\ parts.ref # <<>> /\ NoSlash(parts.ref)
        /\ parts.path # <<>> }

RawUrlOf(parts) ==
    <<"https:", SLASH, SLASH, "raw.githubusercontent.com", SLASH>> \o parts.owner
        \o <<SLASH>> \o parts.repo \o <<SLASH>> \o parts.ref \o <<SLASH>> \o parts.path

NormalizedAs(shapes) ==
    /\ call.fn = "normalizeGithubRawUrl" =>
           IF shapes # {} THEN \A parts \in shapes : call.ret = RawUrlOf(parts)
                          ELSE call.ret = call.arg
    /\ call.fn = "normalizeGithubRawUrl twice" => call.ret = call.mid

\* C4 as stated: a URL https://github.com/<owner>/<repo>/raw/<ref>/<path> is
\* rewritten to https://raw.githubusercontent.com/<owner>/<repo>/<ref>/<path>,
\* every other URL is returned unchanged, and normalizing twice gives what
\* normalizing once gives.
C4_AsStated == NormalizedAs(GithubRawShapes(call.arg, "https:"))

\* C4 as amended: the URLs rewritten are those of that shape under either
\* scheme, https://github.com/... and http://github.com/...; every other URL is
\* returned unchanged, and normalizing twice gives what normalizing once gives.
C4_Normalize ==
    NormalizedAs(GithubRawShapes(call.arg, "https:") \cup GithubRawShapes(call.arg, "http:"))

\* The example of the specification was rewritten, and rewriting it again
\* changed nothing.
C4_Witness ==
    /\ call.fn = "normalizeGithubRawUrl twice"
    /\ call.arg = SpecExampleUrl
    /\ call.mid = UrlOf("https:", "raw.githubusercontent.com",
                        << <<"acme">>, <<"widgets">>, <<"main">>, <<"docs">>, <<"x", ".md">> >>)
    /\ call.ret = call.mid

---------------------------------------------------------------------------
(* C5: location resolution under a base-path prefix                        *)

DocsPrefix == Meta(<<SLASH, "docs">>)

DocsUsagePath == <<SLASH, "docs", SLASH, "usage", SLASH>>

HasPrefix(m) == m.present /\ m.content # <<>>

\* C5 as stated: with prefix /docs and current path /docs/usage/ the derived
\* source path is usage/index.md, and a current path equal to the prefix gives
\* index.md.
C5_AsStated ==
    call.fn = "getMarkdownPathFromLocation" =>
        /\ (call.arg.metaBasePath = DocsPrefix /\ call.arg.pathname = DocsUsagePath)
               => call.ret = <<"usage", SLASH, "index", ".md">>
        /\ (HasPrefix(call.arg.metaBasePath)
                /\ call.arg.pathname = NormalizedBase(call.arg.metaBasePath.content))
               => call.ret = <<"index", ".md">>

\* C5 as amended: with prefix /docs and current path /docs/usage/ the derived
\* source path is usage.md (the trailing slash is dropped and ".md" appended;
\* the directory's index document appears only in the local URL, which keeps
\* the prefix: <origin>/docs/usage/index.md), and a current path equal to the
\* prefix gives index.md.
C5_Location ==
    /\ call.fn = "getMarkdownPathFromLocation" =>
        /\ (call.arg.metaBasePath = DocsPrefix /\ call.arg.pathname = DocsUsagePath)
               => call.ret = <<"usage", ".md">>
        /\ (HasPrefix(call.arg.metaBasePath)
                /\ call.arg.pathname = NormalizedBase(call.arg.metaBasePath.content))
               => call.ret = <<"index", ".md">>
    /\ call.fn = "getLocalMarkdownUrl" =>
        (call.arg.pathname = DocsUsagePath
            => call.ret = Origin \o <<SLASH, "docs", SLASH, "usage", SLASH, "index", ".md">>)

\* The source path of /docs/usage/ under the prefix /docs was derived.
C5_Witness ==
    /\ call.fn = "getMarkdownPathFromLocation"
    /\ call.arg.metaBasePath = DocsPrefix
    /\ call.arg.pathname = DocsUsagePath
    /\ call.ret # <<>>

---------------------------------------------------------------------------
(* C1: a URL of the cache is not requested again                           *)

\* A click on "Copy page" has just been handled.
CopiedPage == last.op = "handleCopyPage"

\* C1 as stated: for a URL of the cache, fetchMarkdown sends no request and
\* returns the stored document, and a click on "Copy page" sends no request
\* and takes its output from the stored document.
C1_AsStated ==
    /\ (last.op = "fetchMarkdown" /\ last.hit) =>
           /\ last.net = 0
           /\ last.settled = "resolved"
           /\ last.ret = markdownCache[last.url]
    /\ (CopiedPage /\ last.hit) =>
           /\ last.net = 0
           /\ last.settled = "source"
           /\ last.ret = markdownCache[last.url]

\* C1: for a URL of the cache, fetchMarkdown sends no request and returns the
\* stored document; a click on "Copy page" sends no request either and takes
\* its output from the stored document when that document is not empty, and
\* from the conversion of the page when it is empty.
C1_CacheHit ==
    /\ (last.op = "fetchMarkdown" /\ last.hit) =>
           /\ last.net = 0
           /\ last.settled = "resolved"
           /\ last.ret = markdownCache[last.url]
    /\ (CopiedPage /\ last.hit) =>
           /\ last.net = 0
           /\ ~last.cacheChanged
           /\ IF markdownCache[last.url] # <<>>
                  THEN last.settled = "source" /\ last.ret = markdownCache[last.url]
                  ELSE last.settled = "dom" /\ last.ret = copyPageMarkdownFromDom(page)

\* A click on "Copy page" for a cached URL whose document is not empty.
C1_Witness ==
    /\ CopiedPage
    /\ last.hit
    /\ last.net = 0
    /\ markdownCache[last.url] # <<>>
    /\ last.ret = markdownCache[last.url]

---------------------------------------------------------------------------
(* C2: a click on "Copy page" whose request fails                          *)

\* The request of fetchMarkdownSync failed: it threw, its status is outside
\* 200..299, or its body is empty.
SyncFailed(xhr) == xhr.error \/ xhr.status < 200 \/ xhr.status > 299 \/ xhr.body = <<>>

\* C2 as stated: when the request of a click on "Copy page" fails, the handler
\* converts the page, hands a text that is not empty to the copy mechanisms
\* and lets no exception out, whatever the page holds and whatever
\* execCommand does.
C2_AsStated ==
    (CopiedPage /\ last.url # <<>> /\ last.net = 1 /\ SyncFailed(last.response)) =>
        /\ last.settled = "dom"
        /\ last.handed # <<>>
        /\ \A i \in 1..Len(last.handed) : last.handed[i].text # <<>>
        /\ ~last.threw

---------------------------------------------------------------------------
(* C6: one toast at a time                                                 *)

ToastIds == { toasts[i].id : i \in 1..Len(toasts) }

\* C6: the document never holds more than one toast, and after a call of
\* showToast the one toast of the document is on show with the message of
\* that call.
C6_ToastExclusive ==
    /\ Len(toasts) <= 1
    /\ last.toast # "" =>
           /\ Len(toasts) = 1
           /\ toasts[1].message = last.toast
           /\ toasts[1].show

\* showToast has just run while the toast before it was still on show: the
\* first timer of that toast is pending and the toast is out of the document.
C6_Witness ==
    /\ last.toast # ""
    /\ Len(toasts) = 1
    /\ toasts[1].message = last.toast
    /\ \E t \in timers : t.kind = "hide" /\ t.toast \notin ToastIds

---------------------------------------------------------------------------
(* C7: the example of the specification, end to end                        *)

HelloWorld == <<"Hello", NL, NL, "World">>

\* One of the copy mechanisms took the text: execCommand returned true, or it
\* returned false and writeText was called.
Working ==
    \/ last.exec = "true"
    \/ last.exec = "false" /\ \E i \in 1..Len(last.handed) : last.handed[i].mechanism = "writeText"

\* The click fetched the example body itself.
FetchedExample ==
    /\ ~last.hit
    /\ last.net = 1
    /\ \E st \in SuccessStatuses : last.response = Response(st, ExampleBody)

\* The click found the document a prefetch had stored.
Prefetched == last.hit /\ cachedBy[last.url] = "prefetch"

\* C7: on /usage/, when the click on "Copy page" fetches the example body, or
\* finds the document a prefetch stored, and a copy mechanism works, every
\* text handed to a copy mechanism is Hello, an empty line, World.
C7_EndToEnd ==
    (CopiedPage /\ page = UsagePage /\ Working /\ (FetchedExample \/ Prefetched)) =>
        /\ last.handed # <<>>
        /\ \A i \in 1..Len(last.handed) : last.handed[i].text = HelloWorld

\* A click on /usage/ that finds the document of a prefetch; execCommand
\* fails and writeText takes the text.
C7_Witness ==
    /\ CopiedPage
    /\ page = UsagePage
    /\ Prefetched
    /\ last.exec = "false"
    /\ last.handed = << Handed("execCommand", HelloWorld), Handed("writeText", HelloWorld) >>

---------------------------------------------------------------------------
(* C8: fetchMarkdownSync on failure                                        *)

\* C8: when the request of fetchMarkdownSync throws, ends with a status
\* outside 200..299 or has an empty body, the call returns "", throws nothing
\* and leaves markdownCache as it was.
C8_SyncFailure ==
    (last.op = "fetchMarkdownSync" /\ last.net = 1 /\ SyncFailed(last.response)) =>
        /\ last.settled = "returned"
        /\ last.ret = <<>>
        /\ ~last.threw
        /\ ~last.cacheChanged

\* A request that ends with status 300 for a URL whose document is cached.
C8_Witness ==
    /\ last.op = "fetchMarkdownSync"
    /\ last.response = Response(300, NotFoundBody)
    /\ last.ret = <<>>
    /\ Has(markdownCache, last.url)

---------------------------------------------------------------------------
(* C9: fetchMarkdown on failure and on success                             *)

\* C9: when the fetch of fetchMarkdown rejects or its status is outside
\* 200..299, the promise of fetchMarkdown rejects and markdownCache stays as
\* it was; when the body of an ok response is read, the document stored and
\* returned is that body without its front matter, trimmed.
C9_AsyncFailure ==
    /\ (last.op = "fetch settled" /\ (last.response.error \/ last.response.status \notin 200..299)) =>
           /\ last.settled = "rejected"
           /\ ~last.cacheChanged
    /\ last.op = "text settled" =>
           /\ last.settled = "resolved"
           /\ last.ret = Trim(removeFrontMatter(last.body))
           /\ Has(markdownCache, last.url)
           /\ markdownCache[last.url] = last.ret

\* A fetch that ends with status 404.
C9_Witness ==
    /\ last.op = "fetch settled"
    /\ last.response = Response(404, NotFoundBody)
    /\ last.settled = "rejected"
    /\ ~Has(markdownCache, last.url)

---------------------------------------------------------------------------
(* C10: execCommand succeeded, writeText is not called                     *)

\* C10: in a page copy and in a link copy, when execCommand returns true the
\* text is handed to execCommand only and nothing waits for writeText.
C10_ShortCircuit ==
    (last.op \in {"handleCopyPage", "handleDropdownAction"} /\ last.exec = "true") =>
        /\ Len(last.handed) = 1
        /\ last.handed[1].mechanism = "execCommand"
        /\ last.settled # "pending"

\* A link copy in which execCommand returns true.
C10_Witness ==
    /\ last.op = "handleDropdownAction"
    /\ last.exec = "true"
    /\ last.handed = << Handed("execCommand", last.url) >>
    /\ last.toast = LinkCopiedMessage

---------------------------------------------------------------------------
(* C11: the chain of copy mechanisms                                       *)

\* A click whose handler called tryExecCommandCopy.
CopyAttempted ==
    last.op \in { "handleCopyPage", "handleDropdownAction" } /\ last.exec # "none"

HandedTo(mechanism) ==
    \E i \in 1..Len(last.handed) : last.handed[i].mechanism = mechanism

\* C11 as the specification states it: in every copy operation, when
\* execCommand returns false or throws and navigator.clipboard.writeText
\* exists, the text is handed to writeText next; and the failure toast is shown
\* only when writeText does not exist or its promise rejected.  The code does
\* not hand the text on when execCommand throws.
C11_AsStated ==
    /\ (CopyAttempted /\ last.exec \in { "false", "throw" } /\ last.api = "present")
           => HandedTo("writeText")
    /\ (CopyAttempted /\ last.toast = FailedMessage) => last.api = "absent"
    /\ (last.op = "writeText settled" /\ last.toast = FailedMessage)
           => last.settled = "rejected"

---------------------------------------------------------------------------
(* C12: the temporary textarea of tryExecCommandCopy                       *)

\* C12 as the specification states it: outside a call of tryExecCommandCopy
\* the document holds no temporary textarea, whichever way the call ended
\* (execCommand returned true, returned false, or threw).  Every state of the
\* model is outside such a call.  The code skips removeChild when execCommand
\* throws.
C12_AsStated == textareas = 0

---------------------------------------------------------------------------
(* C13: a copy that failed altogether is told by a toast                   *)

\* The step in which the last copy mechanism of a command failed: execCommand
\* returned false with no writeText to turn to, or the promise of writeText
\* rejected.  After either nothing of the command is pending, so a toast
\* for it is shown in this step or never.
AllMechanismsFailed ==
    \/ CopyAttempted /\ last.exec = "false" /\ last.api = "absent"
    \/ last.op = "writeText settled" /\ last.settled = "rejected"

\* The step in which a copy mechanism of a command succeeded.
SomeMechanismSucceeded ==
    \/ CopyAttempted /\ last.exec = "true"
    \/ last.op = "writeText settled" /\ last.settled = "resolved"

\* C13 as the specification states it: for the page copy and for the link
\* copy, when every copy mechanism has failed the failure toast is shown, and
\* when one succeeded no failure toast is shown for the command.  The code
\* shows no toast when the link copy fails.
C13_AsStated ==
    /\ AllMechanismsFailed =>
           /\ last.toast = FailedMessage
           /\ \E i \in 1..Len(toasts) : toasts[i].message = FailedMessage
    /\ SomeMechanismSucceeded => last.toast # FailedMessage

---------------------------------------------------------------------------
(* C14: the "View source of this page" link comes first                    *)

\* The content region of the page holds the link with a non-empty href.
HasSourceLink(doc) ==
    doc.hasContentRoot /\ doc.sourceLink.present /\ doc.sourceLink.content # <<>>

\* A click whose handler resolved a source URL: the page copy, or a handled
\* command of the dropdown.
Resolved ==
    \/ last.op = "handleCopyPage"
    \/ last.op = "handleDropdownAction" /\ last.suppressed

\* The URLs derived from the location of the page.
LocationDerived(doc) ==
    { getLocalMarkdownUrl(Origin, doc.pathname),
      getRawRepoBaseUrl(doc.metaRepo) \o <<SLASH, "docs", SLASH>>
          \o getMarkdownPathFromLocation(doc.pathname, doc.metaBasePath) }

\* C14 as the specification states it: every command that resolves a source
\* URL (page copy, link copy, view raw, open in assistant) resolves to the
\* normalized href of the source link when the content region has one, and
\* to a URL derived from the location only when it has none.  The page copy
\* resolves from the location whatever the page holds.
C14_AsStated ==
    /\ (Resolved /\ HasSourceLink(page))
           => last.url = normalizeGithubRawUrl(page.sourceLink.content)
    /\ (Resolved /\ last.url \in LocationDerived(page)) => ~HasSourceLink(page)

---------------------------------------------------------------------------
(* C15: the link copy                                                      *)

\* The URL of the remote-preferring resolution: the normalized href of the
\* source link, or the repository base, "/docs/" and the path of the page.
RemotePreferred(doc) ==
    IF HasSourceLink(doc) THEN normalizeGithubRawUrl(doc.sourceLink.content)
    ELSE getRawRepoBaseUrl(doc.metaRepo) \o <<SLASH, "docs", SLASH>>
             \o getMarkdownPathFromLocation(doc.pathname, doc.metaBasePath)

LinkCopy(e) == e.op = "handleDropdownAction" /\ e.ret = <<"copy-markdown-link">>

\* C15: a click on "copy-markdown-link" sends no request and leaves the cache
\* alone; when the remote-preferring resolution yields no URL it shows the
\* toast "No markdown source URL found." and hands nothing to a copy
\* mechanism; when it yields a URL, every text it hands to a copy mechanism
\* is exactly that URL.
C15_CopyLink ==
    [][ LinkCopy(last') =>
          /\ fetches' = fetches /\ markdownCache' = markdownCache /\ last'.net = 0
          /\ IF RemotePreferred(page) = <<>>
                 THEN /\ last'.toast = NoUrlMessage
                      /\ last'.handed = <<>>
                      /\ writes' = writes /\ textareas' = textareas
                 ELSE /\ last'.handed # <<>>
                      /\ \A i \in 1..Len(last'.handed) :
                             last'.handed[i].text = RemotePreferred(page) ]_vars

\* The address of the raw file the source link of /usage/ stands for.
UsageRawUrl ==
    <<"https:", SLASH, SLASH, "raw.githubusercontent.com", SLASH, "jeffersonaaron25", SLASH,
      "pyeztrace", SLASH, "main", SLASH, "docs", SLASH, "usage", ".md">>

\* The link of /usage/ was handed to execCommand, which returned false, and
\* then to writeText, with nothing requested.
C15_Witness ==
    /\ LinkCopy(last)
    /\ page = UsagePage
    /\ last.exec = "false"
    /\ last.handed = << Handed("execCommand", UsageRawUrl), Handed("writeText", UsageRawUrl) >>
    /\ last.net = 0
    /\ fetches = <<>>

---------------------------------------------------------------------------
(* C16: what the dispatcher recognizes                                     *)

Dispatched(e) == e.op = "handleDropdownAction"

\* The commands of the dropdown the specification gives an effect to.
LinkCommands == { "copy-markdown-link", "view-markdown", "open-chatgpt", "open-claude" }

\* One clipboard operation: the text went to execCommand once and, after
\* that, to writeText at most once.
OneClipboardOperation(e) ==
    /\ Len(e.handed) \in 1..2
    /\ e.handed[1].mechanism = "execCommand"
    /\ Len(e.handed) = 2 => e.handed[2].mechanism = "writeText"

\* C16: a click on a dropdown item whose data-action is missing or is not one
\* of the four recognized commands changes nothing: no toast, no text handed
\* to a copy mechanism, no window opened, no request, the cache as before and
\* the event neither prevented nor stopped.  A click on a recognized command
\* suppresses the event and has exactly one effect: one clipboard operation
\* or one window opened, never both and never neither.
C16_Dispatch ==
    [][ Dispatched(last') =>
          IF last'.ret[1] \notin LinkCommands
              THEN /\ toasts' = toasts /\ timers' = timers
                   /\ writes' = writes /\ textareas' = textareas
                   /\ fetches' = fetches /\ markdownCache' = markdownCache
                   /\ last'.toast = "" /\ last'.handed = <<>> /\ last'.opened = <<>>
                   /\ last'.net = 0 /\ ~last'.suppressed /\ ~last'.closed
              ELSE /\ last'.suppressed
                   /\ (last'.handed # <<>>) # (last'.opened # <<>>)
                   /\ last'.handed # <<>> => OneClipboardOperation(last') ]_vars

\* An item without data-action was clicked while the writeText of a link
\* copy was still pending: the click left everything as it was.
C16_Witness ==
    /\ Dispatched(last)
    /\ last.ret = <<"">>
    /\ ~last.suppressed
    /\ writes = <<"copy-markdown-link">>
    /\ toasts = <<>>

---------------------------------------------------------------------------
(* C17: the commands that open a window                                    *)

OpenCommands == { "view-markdown", "open-chatgpt", "open-claude" }

\* The address the specification gives to each command that opens a window.
AddressOf(action, markdownUrl) ==
    IF action = "view-markdown" THEN markdownUrl
    ELSE (IF action = "open-chatgpt"
              THEN <<"https:", SLASH, SLASH, "chatgpt.com", SLASH, "?", "hints=search&q=">>
              ELSE <<"https:", SLASH, SLASH, "claude.ai", SLASH, "new", "?", "q=">>)
         \o encodeURIComponent(<<"Read", SP>> \o markdownUrl
                \o <<SP, "so", SP, "I", SP, "can", SP, "ask", SP, "questions", SP, "about",
                     SP, "it.">>)

\* C17: view-markdown, open-chatgpt and open-claude send no request, hand no
\* text to a copy mechanism, show no success toast, leave markdownCache as it
\* was, and open one window: at the resolved URL for view-markdown, at the
\* address of the assistant with the encoded instruction around the resolved
\* URL for the other two.
C17_OpenOnly ==
    [][ (Dispatched(last') /\ last'.ret[1] \in OpenCommands) =>
          /\ fetches' = fetches /\ last'.net = 0
          /\ markdownCache' = markdownCache /\ ~last'.cacheChanged
          /\ last'.handed = <<>> /\ writes' = writes /\ textareas' = textareas
          /\ last'.toast \notin { CopiedMessage, LinkCopiedMessage }
          /\ last'.opened # <<>>
          /\ last'.opened = AddressOf(last'.ret[1], RemotePreferred(page)) ]_vars

\* "Open in Claude" on /usage/ with the page already in the cache.
C17_Witness ==
    /\ Dispatched(last)
    /\ last.ret = <<"open-claude">>
    /\ page = UsagePage
    /\ Has(markdownCache, getLocalMarkdownUrl(Origin, page.pathname))
    /\ last.opened = <<"https:", SLASH, SLASH, "claude.ai", SLASH, "new", "?", "q=">>
                         \o <<"Read", "%20">> \o encodeURIComponent(UsageRawUrl)
                         \o <<"%20", "so", "%20", "I", "%20", "can", "%20", "ask", "%20",
                              "questions", "%20", "about", "%20", "it.">>

---------------------------------------------------------------------------
(* C18: the cache and the synchronous fetch                                *)

\* fetchMarkdownSync was called for a URL that was in the cache.
SyncCallOnCached == last.op = "fetchMarkdownSync" /\ last.hit

\* C18 as the specification states it: a call fetchMarkdownSync(u) for a URL
\* u of the cache sends no request and returns the stored document.
\* fetchMarkdownSync never looks at the cache.
C18_AsStated ==
    SyncCallOnCached => (last.net = 0 /\ last.ret = markdownCache[last.url])

\* C18: the cache is looked at before the network in the synchronous mode,
\* by the caller: for a URL u of the cache handleCopyPage takes the stored
\* document without calling fetchMarkdownSync and sends no request;
\* fetchMarkdownSync itself does not look at the cache, so a call
\* fetchMarkdownSync(u) sends one request and returns the stripped body of
\* its response, or the empty string when the request failed, and u stays in
\* the cache.
C18_SyncLookup ==
    /\ (CopiedPage /\ last.hit) =>
           /\ last.net = 0 /\ last.response = NoRequest
           /\ ~last.cacheChanged
    /\ SyncCallOnCached =>
           /\ last.net = 1 /\ last.response # NoRequest
           /\ last.ret = IF SyncFailed(last.response) THEN <<>>
                          ELSE removeFrontMatter(last.response.body)
           /\ Has(markdownCache, last.url)

\* fetchMarkdownSync was called for the cached index.md of /usage/ and its
\* request failed: it returned the empty string and the document stayed.
C18_Witness ==
    /\ SyncCallOnCached
    /\ SyncFailed(last.response)
    /\ last.net = 1
    /\ last.ret = <<>>
    /\ markdownCache[last.url] = HelloWorld

---------------------------------------------------------------------------
(* C19: the cache only grows                                               *)

\* C19: no step of the site (prefetch, navigation, page copy, dropdown
\* command, settling fetch) takes a URL out of markdownCache, and a step adds
\* at most one URL; a Map holds one entry for a key, so a URL written again
\* leaves the number of entries as it was.
C19_CacheGrows ==
    [][ /\ DOMAIN markdownCache \subseteq DOMAIN markdownCache'
        /\ Cardinality(DOMAIN markdownCache') <= Cardinality(DOMAIN markdownCache) + 1
        /\ (last'.hit /\ last'.url \in DOMAIN markdownCache)
               => DOMAIN markdownCache' = DOMAIN markdownCache ]_vars

\* Two pages are in the cache and the document of one of them has just been
\* written a second time.
C19_Witness ==
    /\ Cardinality(DOMAIN markdownCache) = 2
    /\ SyncCallOnCached
    /\ ~SyncFailed(last.response)
    /\ markdownCache[last.url] = last.ret

---------------------------------------------------------------------------
(* C20: a prefetch that a navigation has overtaken                         *)

\* The document of the page on show: the stripped body served for its URL.
DocumentOf(doc) == removeFrontMatter(ServedBody(getLocalMarkdownUrl(Origin, doc.pathname)))

\* C20: whatever the navigations and the order in which the pending fetches
\* settle, a settling fetch writes under the URL it fetched and under no
\* other; every entry of the cache holds the stripped body served for its own
\* URL; and a page copy takes the document of the page on show or the text
\* of that page, never the document of another page.
C20_Superseded ==
    [][ /\ last'.op = "text settled" =>
               /\ Has(markdownCache', last'.url)
               /\ markdownCache'[last'.url] = removeFrontMatter(last'.body)
               /\ \A u \in DOMAIN markdownCache' \ { last'.url } :
                      Has(markdownCache, u) /\ markdownCache'[u] = markdownCache[u]
        /\ \A u \in DOMAIN markdownCache' :
               markdownCache'[u] = removeFrontMatter(ServedBody(u))
        /\ last'.op = "handleCopyPage" =>
               last'.ret \in { DocumentOf(page'), copyPageMarkdownFromDom(page') } ]_vars

\* The prefetch of /usage/ settled after the visitor had moved to another
\* page, whose own prefetch is still pending: the document went under the
\* URL of /usage/ and the page on show has no entry.
C20_Witness ==
    /\ page # UsagePage
    /\ last.op = "text settled"
    /\ last.by = "prefetch"
    /\ last.url = getLocalMarkdownUrl(Origin, UsagePage.pathname)
    /\ markdownCache[last.url] = HelloWorld
    /\ ~Has(markdownCache, getLocalMarkdownUrl(Origin, page.pathname))
    /\ \E i \in 1..Len(fetches) : fetches[i].url = getLocalMarkdownUrl(Origin, page.pathname)

---------------------------------------------------------------------------
(* C21: the source path of the two resolution modes                        *)

\* Both modes were applied to a document without a source link.
ResolvedBoth == call.fn = "getCurrentMarkdownUrl both" /\ ~HasSourceLink(call.arg)

\* The path getLocalMarkdownUrl appended to the origin, with the configured
\* base-path prefix and the leading slash taken off.
LocalSourcePath ==
    StripLeadingSlashes(stripBasePath(SliceFrom(call.mid, Len(Origin)), call.arg.metaBasePath))

\* The path getCurrentMarkdownUrl appended to "<repo base>/docs/".
RemoteSourcePath ==
    SliceFrom(call.ret, Len(getRawRepoBaseUrl(call.arg.metaRepo)) + 3)

\* C21 as the specification states it: for every current path the two modes
\* derive the same source path and differ only in the base.
C21_AsStated == ResolvedBoth => LocalSourcePath = RemoteSourcePath

\* The current path names a file: it ends in ".html" or ".md".
NamesFile(pathname) == EndsWith(pathname, <<".html">>) \/ EndsWith(pathname, <<".md">>)

\* C21: the two modes derive the same source path, differing only in the
\* base, when the current path ends in ".html" or ".md" or is the root "/".
\* For every other current path (a directory, or a name without extension)
\* getLocalMarkdownUrl appends "index.md" to the path, whereas
\* getCurrentMarkdownUrl without a source link appends to "<repo base>/docs/"
\* the path with its slashes trimmed and ".md" appended; the two paths then
\* differ unless the remote one is the root index.md.
C21_SourcePath ==
    ResolvedBoth =>
        /\ NamesFile(call.arg.pathname) => LocalSourcePath = RemoteSourcePath
        /\ call.arg.pathname = <<SLASH>> =>
               (LocalSourcePath = IndexMd /\ RemoteSourcePath = IndexMd)
        /\ ~NamesFile(call.arg.pathname) =>
               /\ EndsWith(LocalSourcePath, IndexMd)
               /\ RemoteSourcePath # IndexMd => LocalSourcePath # RemoteSourcePath
        /\ RemoteSourcePath =
               getMarkdownPathFromLocation(call.arg.pathname, call.arg.metaBasePath)

\* /usage/: usage/index.md under the origin, usage.md under "<repo base>/docs/".
C21_Witness ==
    /\ ResolvedBoth
    /\ call.arg.pathname = <<SLASH, "usage", SLASH>>
    /\ LocalSourcePath = <<"usage", SLASH, "index", ".md">>
    /\ RemoteSourcePath = <<"usage", ".md">>

---------------------------------------------------------------------------
(* C22: the life of a toast                                                *)

\* The time left on the timer of the given kind set for toast id.
Pending(tm, id, kind) == { t.ms : t \in { u \in tm : u.toast = id /\ u.kind = kind } }

InDocument(ts, id) == \E i \in 1..Len(ts) : ts[i].id = id

OnShow(ts, id) == \E i \in 1..Len(ts) : ts[i].id = id /\ ts[i].show

\* What a step does to the toast id of the document.  A toast just shown is
\* on show with the whole display duration ahead.  A toast on show stays on
\* show while its own timer has time left, whatever other timers run; it
\* fades only when its own timer ran out, and then with the whole fade
\* duration ahead.  A toast leaves the document only by being replaced or
\* when its own fade ran out.  Time passes for all timers alike.
ToastStep(id) ==
    /\ (~InDocument(toasts, id) /\ InDocument(toasts', id)) =>
           /\ last'.toast # ""
           /\ OnShow(toasts', id)
           /\ Pending(timers', id, "hide") = { ToastVisibleMs }
    /\ (OnShow(toasts, id) /\ InDocument(toasts', id)) =>
           IF 0 \in Pending(timers, id, "hide") /\ last'.op = "timer" /\ ~OnShow(toasts', id)
               THEN Pending(timers', id, "remove") = { ToastFadeMs }
               ELSE /\ OnShow(toasts', id)
                    /\ \E ms \in Pending(timers, id, "hide"), ms2 \in Pending(timers', id, "hide") :
                           ms2 = IF last'.op = "elapse" THEN ms - TickMs ELSE ms
    /\ (InDocument(toasts, id) /\ ~OnShow(toasts, id) /\ InDocument(toasts', id)) =>
           /\ ~OnShow(toasts', id)
           /\ \E ms \in Pending(timers, id, "remove"), ms2 \in Pending(timers', id, "remove") :
                  ms2 = IF last'.op = "elapse" THEN ms - TickMs ELSE ms
    /\ (InDocument(toasts, id) /\ ~InDocument(toasts', id)) =>
           \/ last'.toast # ""
           \/ ~OnShow(toasts, id) /\ 0 \in Pending(timers, id, "remove") /\ last'.op = "timer"

\* C22: a toast that is not replaced is on show for 2000 ms, fades for 250 ms
\* and is then removed; the timers of a replaced toast never hide, fade or
\* remove the toast that replaced it, which gets its own 2000 ms; and every
\* toast leaves the document in the end.
C22_ToastLifecycle ==
    /\ [][ \A id \in 1..MaxToasts : ToastStep(id) ]_vars
    /\ \A id \in 1..MaxToasts : InDocument(toasts, id) ~> ~InDocument(toasts, id)

\* A toast replaced another 250 ms before the timer of that one ran out, the
\* old timer has since run, and the new toast is still on show with 1500 ms
\* of its own ahead.
C22_Witness ==
    /\ Len(toasts) = 1
    /\ toasts[1].show
    /\ Pending(timers, toasts[1].id, "hide") = { 1500 }
    /\ \E t \in timers : t.toast # toasts[1].id /\ t.kind = "remove"

---------------------------------------------------------------------------
(* C23: the page copy stays in the turn of the click                       *)

\* The document handleCopyPage has after lines 288-295, from the cache as it
\* was when the click arrived and the response of its own request.
SourceInTurn(e, cache) ==
    IF Has(cache, e.url) THEN cache[e.url]
    ELSE IF SyncFailed(e.response) THEN <<>>
    ELSE removeFrontMatter(e.response.body)

---------------------------------------------------------------------------
(* C24: a URL is always resolved                                           *)

\* The path of the page is empty once the base path and the slashes are off.
EmptyAfterStripping(doc) ==
    StripTrailingSlashes(StripLeadingSlashes(stripBasePath(doc.pathname, doc.metaBasePath)))
        = <<>>

\* C24: whatever the path of the page, its base-path and repository metas
\* and its source link, the page copy (local-preferring) and the commands of
\* the dropdown (remote-preferring) resolve a non-empty URL; a path that is
\* empty after stripping resolves to the root index.md; and the toast "No
\* markdown source URL found." is never shown.
C24_NeverNoUrl ==
    /\ Resolved => last.url # <<>>
    /\ (Resolved /\ Dispatched(last) /\ ~HasSourceLink(page) /\ EmptyAfterStripping(page))
           => last.url = getRawRepoBaseUrl(page.metaRepo) \o <<SLASH, "docs", SLASH>> \o IndexMd
    /\ last.toast # NoUrlMessage
    /\ \A i \in 1..Len(toasts) : toasts[i].message # NoUrlMessage

\* A command of the dropdown on the page /docs under the base path /docs,
\* with no source link and "/" for repository base: the URL is /docs/index.md.
C24_Witness ==
    /\ Resolved /\ Dispatched(last)
    /\ page.pathname = <<SLASH, "docs">>
    /\ page.metaBasePath = Meta(<<SLASH, "docs">>)
    /\ page.metaRepo = Meta(<<SLASH>>)
    /\ ~HasSourceLink(page)
    /\ last.url = <<SLASH, "docs", SLASH, "index", ".md">>

---------------------------------------------------------------------------
(* C25: the toasts of a copy tell what happened                            *)

\* The promise of writeText of the given command has just settled.
WriteSettled(command, how) ==
    last.op = "writeText settled" /\ last.ret = <<command>> /\ last.settled = how

\* C25: "Page markdown copied." is shown only in the step in which
\* execCommand returned true for a page copy or the writeText of a page copy
\* resolved, and "Markdown link copied." only in the like steps of a link
\* copy.  A page copy that does not throw shows one toast and only one: the
\* success or the failure toast in the click itself when writeText is not
\* awaited, and otherwise none in the click and one when the pending promise
\* of writeText settles.
C25_TruthfulToasts ==
    /\ last.toast = CopiedMessage =>
           \/ CopiedPage /\ last.exec = "true"
           \/ WriteSettled("copy-page", "resolved")
    /\ last.toast = LinkCopiedMessage =>
           \/ LinkCopy(last) /\ last.exec = "true"
           \/ WriteSettled("copy-markdown-link", "resolved")
    /\ (CopiedPage /\ ~last.threw) =>
           IF last.exec = "true" THEN last.toast = CopiedMessage /\ ~HandedTo("writeText")
           ELSE IF HandedTo("writeText")
               THEN /\ last.toast = ""
                    /\ \E i \in 1..Len(writes) : writes[i] = "copy-page"
           ELSE last.toast = FailedMessage
    /\ WriteSettled("copy-page", "resolved") => last.toast = CopiedMessage
    /\ WriteSettled("copy-page", "rejected") => last.toast = FailedMessage
    /\ last.toast # "" => (Len(toasts) = 1 /\ toasts[1].message = last.toast)

\* execCommand had returned false for a page copy and the promise of
\* writeText has now resolved: the success toast is on show.
C25_Witness ==
    /\ WriteSettled("copy-page", "resolved")
    /\ last.toast = CopiedMessage
    /\ Len(toasts) = 1
    /\ toasts[1].message = CopiedMessage
    /\ writes = <<>>

---------------------------------------------------------------------------
(* C26: the prefetch is silent                                             *)

\* A step of a prefetch: its start on load or navigation, or the settling of
\* its fetch or of the body of its response.
PrefetchStep(e) ==
    \/ e.op = "prefetchCurrentPageMarkdown"
    \/ e.op \in { "fetch settled", "text settled" } /\ e.by = "prefetch"

\* C26: a prefetch sends no request when the local URL of the page is in the
\* cache; whatever its fetch ends with it shows no toast, hands nothing to a
\* copy mechanism and lets no rejection out; a prefetch that failed leaves
\* the cache as it was; and a page copy after a failed prefetch sends its
\* own blocking request and hands to execCommand the document it brought
\* or, failing that, the text of the page.
C26_SilentPrefetch ==
    [][ /\ (last'.op = "prefetchCurrentPageMarkdown" /\ Has(markdownCache, last'.url)) =>
               /\ last'.net = 0
               /\ fetches' = fetches
        /\ PrefetchStep(last') =>
               /\ last'.toast = "" /\ toasts' = toasts /\ timers' = timers
               /\ last'.handed = <<>> /\ writes' = writes /\ textareas' = textareas
               /\ ~last'.threw
        /\ (PrefetchStep(last') /\ last'.settled = "rejected") =>
               markdownCache' = markdownCache
        /\ (last'.op = "handleCopyPage" /\ fetches = <<>> /\ ~Has(markdownCache, last'.url)) =>
               /\ last'.net = 1
               /\ last'.handed # <<>>
               /\ last'.handed[1] =
                      Handed("execCommand",
                             IF SourceInTurn(last', markdownCache) # <<>>
                                 THEN SourceInTurn(last', markdownCache)
                                 ELSE copyPageMarkdownFromDom(page)) ]_vars

\* The prefetch of /usage/ had failed and the click that followed got the
\* document by its own request.
C26_Witness ==
    /\ CopiedPage
    /\ page = UsagePage
    /\ fetches = <<>>
    /\ ~last.hit
    /\ cachedBy[last.url] = "sync"
    /\ last.handed[1] = Handed("execCommand", HelloWorld)
    /\ last.toast = CopiedMessage

---------------------------------------------------------------------------
(* C27: empty documents in the cache                                       *)

\* C27 as the specification states it: every document in the cache is
\* non-empty, and a page copy that finds its URL in the cache never falls
\* back to the text of the page.  Both fetchers store the stripped body of a
\* response that holds a front-matter block only.
C27_AsStated ==
    /\ \A u \in DOMAIN markdownCache : markdownCache[u] # <<>>
    /\ (CopiedPage /\ last.hit) => last.settled = "source"

\* C27: every document in the cache is the stripped body of a successful
\* response for its URL, and it is empty when that body held nothing but a
\* front-matter block (or, for fetchMarkdown, nothing at all); so
\* fetchMarkdownSync returns the empty string both when it stored nothing
\* and when it stored an empty document, and a page copy that finds an empty
\* document in the cache sends no request and falls back to the text of the
\* page, while one that finds a non-empty document takes it.
C27_EmptyDocuments ==
    /\ \A u \in DOMAIN markdownCache : markdownCache[u] = removeFrontMatter(ServedBody(u))
    /\ (last.op \in { "fetchMarkdownSync", "handleCopyPage" } /\ last.net = 1
           /\ ~SyncFailed(last.response) /\ removeFrontMatter(last.response.body) = <<>>)
           => (Has(markdownCache, last.url) /\ markdownCache[last.url] = <<>>)
    /\ (last.op = "fetchMarkdownSync" /\ SyncFailed(last.response)) =>
           (last.ret = <<>> /\ ~last.cacheChanged)
    /\ (CopiedPage /\ last.hit) =>
           /\ last.net = 0
           /\ IF markdownCache[last.url] = <<>>
                  THEN last.settled = "dom" /\ last.ret = copyPageMarkdownFromDom(page)
                  ELSE last.settled = "source" /\ last.ret = markdownCache[last.url]

\* The index.md of / holds a front-matter block only: the blocking request
\* of a click stored the empty document, and the next click, finding it in
\* the cache, took the text of the page.
C27_Witness ==
    /\ CopiedPage
    /\ page = HomePage
    /\ last.hit
    /\ markdownCache[last.url] = <<>>
    /\ cachedBy[last.url] = "sync"
    /\ last.settled = "dom"

---------------------------------------------------------------------------
(* C28: the shape of the source path                                       *)

\* The path lies under the configured base path, or is that base path.
UnderPrefix(pathname, m) ==
    /\ HasPrefix(m)
    /\ \/ pathname = NormalizedBase(m.content)
       \/ StartsWith(pathname, NormalizedBase(m.content) \o <<SLASH>>)

\* The path without the configured base path and without its leading slashes.
Unprefixed(pathname, m) ==
    StripLeadingSlashes(IF UnderPrefix(pathname, m)
                            THEN SliceFrom(pathname, Len(NormalizedBase(m.content)))
                            ELSE pathname)

\* C28: getMarkdownPathFromLocation returns a non-empty path that ends in
\* ".md", neither begins nor ends with a slash and holds neither "?" nor "#";
\* for a path ending in ".html" only that suffix is replaced by ".md", a path
\* ending in ".md" is kept as it is, and a path outside the configured base
\* path gives what it gives with no base path configured.
C28_WellFormed ==
    call.fn = "getMarkdownPathFromLocation" =>
        /\ call.ret # <<>>
        /\ EndsWith(call.ret, <<".md">>)
        /\ Head(call.ret) # SLASH
        /\ \A i \in 1..Len(call.ret) : call.ret[i] \notin { "?", "#" }
        /\ EndsWith(call.arg.pathname, <<".html">>) =>
               /\ call.ret[Len(call.ret)] = ".md"
               /\ SubSeq(call.ret, 1, Len(call.ret) - 1) \o <<".html">>
                      = Unprefixed(call.arg.pathname, call.arg.metaBasePath)
        /\ EndsWith(call.arg.pathname, <<".md">>) =>
               call.ret = Unprefixed(call.arg.pathname, call.arg.metaBasePath)
        /\ ~UnderPrefix(call.arg.pathname, call.arg.metaBasePath) =>
               call.ret = getMarkdownPathFromLocation(call.arg.pathname, NoMeta)

\* /usage/docs/usage.md under the base path /docs: outside the prefix, and
\* kept as it is but for the leading slash.
C28_Witness ==
    /\ call.fn = "getMarkdownPathFromLocation"
    /\ call.arg.metaBasePath = DocsPrefix
    /\ call.arg.pathname = <<SLASH, "usage", SLASH, "docs", SLASH, "usage", ".md">>
    /\ call.ret = <<"usage", SLASH, "docs", SLASH, "usage", ".md">>

====
